---------------------------- MODULE Spec2Model ----------------------------
(***************************************************************************)
(* A model of pbase: a fixed-width, on-disk table store with sorted        *)
(* secondary indices and a SELECT executor.                                *)
(*                                                                         *)
(* Files are byte sequences.  Byte offsets are 0-based as in the source;   *)
(* TLA+ sequences are 1-based, so byte k of the source is bytes[k + 1].    *)
(*                                                                         *)
(* The specifications share the variables:                                 *)
(*   Spec      the PBase facade (pbase.rs): create table, insert.          *)
(*   SpecQuery the facade together with the single-table steps of the      *)
(*             SELECT executor (query_tools.rs), run on the files the      *)
(*             facade has written.                                         *)
(*   SpecIndex find_insert_pos_in_index (query_tools.rs), run on table     *)
(*             images with sorted index files drawn in the initial state.  *)
(*   SpecIndexFilter  index_filter (query_tools.rs) on the same images.    *)
(***************************************************************************)
EXTENDS Integers, Sequences, FiniteSets, TLC

VARIABLES
    schemaFile,  \* table -> [exists, schema]      the <table>.pbs file
    dataFile,    \* table -> [exists, bytes]       the <table>.pbd file
    indexFile,   \* table -> index -> [exists, bytes]   <table>__<index>.pbi
    okInserts,   \* table -> number of inserts that returned Ok since creation
    out          \* what the last operation was given and what it returned

vars == <<schemaFile, dataFile, indexFile, okInserts, out>>

-----------------------------------------------------------------------------
(* Bounds of the model.                                                    *)

\* Rows held by all data files together (Spec, SpecQuery).
MaxRows == 2

\* Rows of the table image drawn by SpecIndex.
MaxEntries == 3

-----------------------------------------------------------------------------
(* Sequence helpers.                                                       *)

\* bytes[pos .. pos + len) of the source.
Slice(bytes, pos, len) == SubSeq(bytes, pos + 1, pos + len)

\* bytes[pos ..] of the source.
SliceFrom(bytes, pos) == SubSeq(bytes, pos + 1, Len(bytes))

Zeros(n) == [k \in 1..n |-> 0]

\* buf with bs copied in at offset pos (copy_from_slice on buf[pos .. pos + len)).
WriteAt(buf, pos, bs) ==
    [k \in 1..Len(buf) |->
        IF k > pos /\ k <= pos + Len(bs) THEN bs[k - pos] ELSE buf[k]]

RECURSIVE SumSeq(_)
SumSeq(s) == IF s = <<>> THEN 0 ELSE s[1] + SumSeq(Tail(s))

\* Rust's integer division, which truncates toward zero.
TruncDiv(a, b) == IF a >= 0 THEN a \div b ELSE -((-a) \div b)

-----------------------------------------------------------------------------
(* value.rs: Value, its byte codec and its ordering.                       *)

NULL == [tag |-> "NULL"]
I32(v) == [tag |-> "I32", v |-> v]
U8(v) == [tag |-> "U8", v |-> v]

\* i32::to_le_bytes: two's complement, least significant byte first.
i32_to_le_bytes(v) ==
    << v % 256, (v \div 256) % 256, (v \div 65536) % 256, (v \div 16777216) % 256 >>

\* i32::from_le_bytes.
i32_from_le_bytes(b) ==
    b[1] + 256 * b[2] + 65536 * b[3]
         + 16777216 * (IF b[4] >= 128 THEN b[4] - 256 ELSE b[4])

\* u64::to_le_bytes of a row pointer (pointers of the model are below 2^31).
u64_to_le_bytes(p) ==
    << p % 256, (p \div 256) % 256, (p \div 65536) % 256, (p \div 16777216) % 256,
       0, 0, 0, 0 >>

\* u64::from_le_bytes of a row pointer whose four high bytes are zero.
u64_from_le_bytes(b) == b[1] + 256 * b[2] + 65536 * b[3] + 16777216 * b[4]

\* A codec that writes an I32 most significant byte first.
copy_bytes_to_be(value) ==
    CASE value.tag = "NULL" -> <<>>
      [] value.tag = "I32" ->
            << (value.v \div 16777216) % 256, (value.v \div 65536) % 256,
               (value.v \div 256) % 256, value.v % 256 >>
      [] value.tag = "U8" -> <<value.v>>

\* Value::copy_bytes_to: the bytes written at offset zero of the slice.
\* NULL writes nothing.
copy_bytes_to(value) ==
    CASE value.tag = "NULL" -> <<>>
      [] value.tag = "I32" -> i32_to_le_bytes(value.v)
      [] value.tag = "U8" -> <<value.v>>

\* An ordering that takes NULL for the zero of the other value's tag.
cmp_null_as_zero(a, b) ==
    LET av == IF a.tag = "NULL" THEN 0 ELSE a.v
        bv == IF b.tag = "NULL" THEN 0 ELSE b.v
    IN  IF a.tag # "NULL" /\ b.tag # "NULL" /\ a.tag # b.tag THEN "panic"
        ELSE IF av < bv THEN "Less" ELSE IF av = bv THEN "Equal" ELSE "Greater"

\* Ord for Value.  Two non-NULL values of different tags panic.
cmp(a, b) ==
    CASE a.tag = "NULL" /\ b.tag = "NULL" -> "Equal"
      [] a.tag = "NULL" /\ b.tag # "NULL" -> "Less"
      [] a.tag # "NULL" /\ b.tag = "NULL" -> "Greater"
      [] a.tag # "NULL" /\ a.tag = b.tag ->
            IF a.v < b.v THEN "Less" ELSE IF a.v = b.v THEN "Equal" ELSE "Greater"
      [] OTHER -> "panic"

\* derive(PartialEq) for Value, the == of inner_join: equal tags and equal
\* payloads.  It has a result for every pair of values.
value_eq(a, b) ==
    IF a.tag = b.tag /\ (a.tag = "NULL" \/ a.v = b.v) THEN "true" ELSE "false"

-----------------------------------------------------------------------------
(* schema.rs: FieldSchema and TableSchema.                                 *)
(* A TableSchema is [name, fields, indices]: fields is the IndexMap as a   *)
(* sequence of [name, type] in declaration order, indices the HashMap as a *)
(* function from index name to the sequence of its field names.            *)

TABLE_PTR_BYTE_SIZE == 8

byte_size(field_schema) == IF field_schema = "U8" THEN 1 ELSE 4

value_from_bytes(field_schema, bytes) ==
    IF field_schema = "U8"
    THEN U8(bytes[1])
    ELSE I32(i32_from_le_bytes(SubSeq(bytes, 1, 4)))

\* table_schema.fields[field_name]
FieldSchemaOf(table_schema, field_name) ==
    LET k == CHOOSE k \in 1..Len(table_schema.fields) :
                 table_schema.fields[k].name = field_name
    IN  table_schema.fields[k].type

FieldNames(table_schema) ==
    {table_schema.fields[k].name : k \in 1..Len(table_schema.fields)}

row_byte_size(table_schema) ==
    SumSeq([k \in 1..Len(table_schema.fields) |->
               byte_size(table_schema.fields[k].type)])

field_byte_pos(table_schema, field_name) ==
    LET k == CHOOSE k \in 1..Len(table_schema.fields) :
                 table_schema.fields[k].name = field_name
    IN  SumSeq([j \in 1..(k - 1) |-> byte_size(table_schema.fields[j].type)])

index_row_byte_size(table_schema, index_name) ==
    LET index_fields == table_schema.indices[index_name]
    IN  SumSeq([k \in 1..Len(index_fields) |->
                   byte_size(FieldSchemaOf(table_schema, index_fields[k]))])
        + TABLE_PTR_BYTE_SIZE

index_field_byte_pos(table_schema, index_name, index_field) ==
    LET index_fields == table_schema.indices[index_name]
        k == CHOOSE k \in 1..Len(index_fields) :
                 /\ index_fields[k] = index_field
                 /\ \A j \in 1..(k - 1) : index_fields[j] # index_field
    IN  SumSeq([j \in 1..(k - 1) |->
                   byte_size(FieldSchemaOf(table_schema, index_fields[j]))])

index_row_ptr_field_byte_pos(table_schema, index_name) ==
    index_row_byte_size(table_schema, index_name) - TABLE_PTR_BYTE_SIZE

\* TableSchema::index_row_to_bytes.  values is the HashMap field -> Value as
\* a function; a field it does not hold leaves its bytes zero.
RECURSIVE IndexRowFields(_, _, _, _, _, _)
IndexRowFields(table_schema, index_fields, values, k, pos, buf) ==
    IF k > Len(index_fields) THEN buf
    ELSE LET f == index_fields[k]
             written == IF f \in DOMAIN values
                        THEN WriteAt(buf, pos, copy_bytes_to(values[f]))
                        ELSE buf
         IN  IndexRowFields(table_schema, index_fields, values, k + 1,
                            pos + byte_size(FieldSchemaOf(table_schema, f)), written)

index_row_to_bytes(table_schema, index_name, values, row_ptr) ==
    LET size == index_row_byte_size(table_schema, index_name)
        filled == IndexRowFields(table_schema, table_schema.indices[index_name],
                                 values, 1, 0, Zeros(size))
    IN  WriteAt(filled, size - TABLE_PTR_BYTE_SIZE, u64_to_le_bytes(row_ptr))

\* TableSchema::parse_row_bytes: field name -> Value.
parse_row_bytes(table_schema, bytes) ==
    [f \in FieldNames(table_schema) |->
        value_from_bytes(FieldSchemaOf(table_schema, f),
                         SliceFrom(bytes, field_byte_pos(table_schema, f)))]

\* TableSchema::data_row_to_bytes, the loop over the values: each value is
\* copied to its field's offset.  The fields' slots are disjoint, so the
\* HashMap's iteration order does not show.
RECURSIVE data_row_fields(_, _, _, _)
data_row_fields(table_schema, values, names, bytes) ==
    IF names = {} THEN bytes
    ELSE LET field_name == CHOOSE n \in names : TRUE
         IN  data_row_fields(table_schema, values, names \ {field_name},
                             WriteAt(bytes, field_byte_pos(table_schema, field_name),
                                     copy_bytes_to(values[field_name])))

\* A row buffer that is not zero-filled before the values are copied in.
data_row_to_bytes_unfilled(table_schema, values) ==
    data_row_fields(table_schema, values, DOMAIN values,
                    [k \in 1..row_byte_size(table_schema) |-> 1])

\* TableSchema::data_row_to_bytes: a zero-filled row buffer with the values
\* copied in.
data_row_to_bytes(table_schema, values) ==
    data_row_fields(table_schema, values, DOMAIN values, Zeros(row_byte_size(table_schema)))

\* TableReader::get_field_value on the bytes of a row.
get_field_value(table_schema, row_bytes, field) ==
    value_from_bytes(FieldSchemaOf(table_schema, field),
                     SliceFrom(row_bytes, field_byte_pos(table_schema, field)))

\* TableRowPositionIterator: 0, row_size, 2 * row_size, ... while below
\* table_size.
TableRowPositionIterator(row_size, table_size) ==
    [k \in 1..((table_size + row_size - 1) \div row_size) |-> (k - 1) * row_size]

\* The absolute positions of the readers TableRowIterator yields.
TableRowIterator(table_schema, table_bytes, selection) ==
    IF selection.kind = "All"
    THEN TableRowPositionIterator(row_byte_size(table_schema), Len(table_bytes))
    ELSE selection.positions

-----------------------------------------------------------------------------
(* Binary search over exclusive bounds.  pred is the comparator closure as *)
(* a function: pred[i] is cmp(value at entry i, target).                   *)

\* A first loop that also moves i on an equal value, and so ends at the
\* last index whose value is not greater than the target.
RECURSIVE narrow_lhs_loop_on_equal(_, _, _)
narrow_lhs_loop_on_equal(i, j, pred) ==
    IF i + 1 >= j THEN <<i, j>>
    ELSE LET mid == TruncDiv(i + j, 2)
         IN  IF pred[mid] \in {"Less", "Equal"}
             THEN narrow_lhs_loop_on_equal(mid, j, pred)
             ELSE narrow_lhs_loop_on_equal(i, mid, pred)

\* "Find LHS": the first loop of the two-sided search.  Ends with i the last
\* index whose value is less than the target and j the first that is not.
RECURSIVE narrow_lhs_loop(_, _, _)
narrow_lhs_loop(i, j, pred) ==
    IF i + 1 >= j THEN <<i, j>>
    ELSE LET mid == TruncDiv(i + j, 2)
         IN  IF pred[mid] = "Less"
             THEN narrow_lhs_loop(mid, j, pred)
             ELSE narrow_lhs_loop(i, mid, pred)

\* A second loop that also moves j on an equal value, and so ends at the
\* first index whose value is not less than the target.
RECURSIVE narrow_rhs_loop_on_equal(_, _, _)
narrow_rhs_loop_on_equal(i, j, pred) ==
    IF i + 1 >= j THEN <<i, j>>
    ELSE LET mid == TruncDiv(i + j, 2)
         IN  IF pred[mid] \in {"Greater", "Equal"}
             THEN narrow_rhs_loop_on_equal(i, mid, pred)
             ELSE narrow_rhs_loop_on_equal(mid, j, pred)

\* "Find RHS": the second loop.  Ends with j the first index whose value is
\* greater than the target and i the last that is not.
RECURSIVE narrow_rhs_loop(_, _, _)
narrow_rhs_loop(i, j, pred) ==
    IF i + 1 >= j THEN <<i, j>>
    ELSE LET mid == TruncDiv(i + j, 2)
         IN  IF pred[mid] = "Greater"
             THEN narrow_rhs_loop(i, mid, pred)
             ELSE narrow_rhs_loop(mid, j, pred)

\* The two-sided search: lhs_idx is final after the first loop, the second
\* loop restarts from that i and the original rhs_idx.
binary_narrow_to_range_exclusive(lhs_idx, rhs_idx, pred) ==
    LET found_lhs == narrow_lhs_loop(lhs_idx, rhs_idx, pred)[1]
        found_rhs == narrow_rhs_loop(found_lhs, rhs_idx, pred)[2]
    IN  <<found_lhs, found_rhs>>

-----------------------------------------------------------------------------
(* query_tools.rs: find_insert_pos_in_index.                               *)

\* The closure handed to the search: entry i's field at value_pos,
\* decoded and compared with cmp_value.
IndexFieldPred(index_bytes, index_row_size, value_pos, field_schema, cmp_value) ==
    [i \in 0..((Len(index_bytes) \div index_row_size) - 1) |->
        cmp(value_from_bytes(field_schema,
                             SliceFrom(index_bytes, i * index_row_size + value_pos)),
            cmp_value)]

RECURSIVE find_insert_pos_fields(_, _, _, _, _, _, _)
find_insert_pos_fields(index_name, index_bytes, index_values, table_schema, field_idx, value_pos, range) ==
    LET index_fields == table_schema.indices[index_name]
    IN  IF field_idx > Len(index_fields) THEN range
        ELSE LET field_schema == FieldSchemaOf(table_schema, index_fields[field_idx])
                 narrowed == binary_narrow_to_range_exclusive(
                                 range[1], range[2],
                                 IndexFieldPred(index_bytes,
                                                index_row_byte_size(table_schema, index_name),
                                                value_pos, field_schema,
                                                index_values[field_idx]))
             IN  find_insert_pos_fields(index_name, index_bytes, index_values,
                                        table_schema, field_idx + 1,
                                        value_pos + byte_size(field_schema),
                                        narrowed)

find_insert_pos_in_index(index_name, index_bytes, index_values, table_schema) ==
    LET index_row_size == index_row_byte_size(table_schema, index_name)
    IN  find_insert_pos_fields(index_name, index_bytes, index_values, table_schema,
                               1, 0, <<-1, Len(index_bytes) \div index_row_size>>)[2]

-----------------------------------------------------------------------------
(* table_opener.rs                                                         *)

\* memmap's map of a file: a file of length zero cannot be mapped.
mmap_ok(file_bytes) == Len(file_bytes) > 0

-----------------------------------------------------------------------------
(* query.rs: RowFilter.  A filter is [field, op, rhs]; field is a          *)
(* FieldSelector [name, source], op an Ordering, rhs an RhsValue:          *)
(* [kind |-> "Value", value] or [kind |-> "Ref", ref] with ref a           *)
(* FieldSelector.                                                          *)

FieldSelector(source, name) == [name |-> name, source |-> source]
RhsLiteral(value) == [kind |-> "Value", value |-> value]
RhsRef(ref) == [kind |-> "Ref", ref |-> ref]
RowFilter(field, op, rhs) == [field |-> field, op |-> op, rhs |-> rhs]

is_multi_table(filter) == filter.rhs.kind = "Ref"

\* RowFilter::filter_source.  FilterSource::new_multi asserts that the two
\* tables differ and orders them.
filter_source(filter) ==
    IF filter.rhs.kind = "Value"
    THEN [kind |-> "Single", source |-> filter.field.source]
    ELSE IF filter.field.source = filter.rhs.ref.source
         THEN [kind |-> "panic"]
         ELSE [kind |-> "Multi",
               sources |-> {filter.field.source, filter.rhs.ref.source}]

-----------------------------------------------------------------------------
(* Selection and its iterator: all rows, or a list of row positions.       *)

SelectionAll == [kind |-> "All", positions |-> <<>>]
SelectionList(positions) == [kind |-> "List", positions |-> positions]

\* The positions SelectionIterator::new(selection, row_byte_len,
\* table_byte_len) yields, in order.
SelectionIterator(selection, row_byte_len, table_byte_len) ==
    IF selection.kind = "All"
    THEN [k \in 1..((table_byte_len + row_byte_len - 1) \div row_byte_len) |->
             (k - 1) * row_byte_len]
    ELSE selection.positions

-----------------------------------------------------------------------------
(* The one-sided searches.                                                 *)

\* The last index in (lhs_idx, rhs_idx) whose value is not greater than the
\* target, lhs_idx when there is none.
binary_narrow_to_upper_range_exclusive(lhs_idx, rhs_idx, pred) ==
    narrow_rhs_loop(lhs_idx, rhs_idx, pred)[1]

\* The first index in (lhs_idx, rhs_idx) whose value is not less than the
\* target, rhs_idx when there is none.
binary_narrow_to_lower_range_exclusive(lhs_idx, rhs_idx, pred) ==
    narrow_lhs_loop(lhs_idx, rhs_idx, pred)[2]

-----------------------------------------------------------------------------
(* query_tools.rs: the single-table steps of SelectQueryExecutor.          *)

\* A score that counts every index field the filters name, wherever it is.
index_score_counting_all(index_fields, filter_fields) ==
    Cardinality({k \in DOMAIN index_fields : index_fields[k] \in filter_fields})

RECURSIVE index_score(_, _)
index_score(index_fields, filter_fields) ==
    IF index_fields = <<>> \/ index_fields[1] \notin filter_fields THEN 0
    ELSE 1 + index_score(Tail(index_fields), filter_fields)

\* index_for_query keeps the first index of the best positive score it meets
\* while iterating the schema's HashMap, whose order is not fixed: the result
\* is any index of the best score, "None" when no index scores.
index_for_query(table_schema, filter_fields) ==
    LET score(ix) == index_score(table_schema.indices[ix], filter_fields)
        best == {ix \in DOMAIN table_schema.indices :
                    /\ score(ix) > 0
                    /\ \A other \in DOMAIN table_schema.indices : score(other) <= score(ix)}
    IN  IF best = {} THEN {"None"} ELSE best

\* filter_by_field_map[field_name]: the literal filters of filters_left on a
\* field of that name, in order.  The filter's source is not looked at.
filter_by_field(filters_left, field_name) ==
    SelectSeq(filters_left, LAMBDA f : ~is_multi_table(f) /\ f.field.name = field_name)

\* filters_left.retain(|row_filter| row_filter != &filter)
retain_other_than(filters_left, filter) ==
    SelectSeq(filters_left, LAMBDA f : f # filter)

\* One filter applied to the range <<lhs_idx, rhs_idx>>.
narrow_by_filter(range, filter, pred) ==
    CASE filter.op = "Equal" ->
            binary_narrow_to_range_exclusive(range[1], range[2], pred)
      [] filter.op = "Greater" ->
            <<binary_narrow_to_upper_range_exclusive(range[1], range[2], pred), range[2]>>
      [] filter.op = "Less" ->
            <<range[1], binary_narrow_to_lower_range_exclusive(range[1], range[2], pred)>>

\* The inner loop of index_filter: every filter of one index field narrows
\* the range and is removed from filters_left.
RECURSIVE index_filter_field(_, _, _, _, _, _)
index_filter_field(filters, k, index_field, st, table_schema, ctx) ==
    IF k > Len(filters) THEN st
    ELSE LET pred == IndexFieldPred(ctx.index_bytes,
                                    index_row_byte_size(table_schema, ctx.index_name),
                                    index_field_byte_pos(table_schema, ctx.index_name,
                                                         index_field),
                                    FieldSchemaOf(table_schema, index_field),
                                    filters[k].rhs.value)
         IN  index_filter_field(filters, k + 1, index_field,
                                [range |-> narrow_by_filter(st.range, filters[k], pred),
                                 filters_left |-> retain_other_than(st.filters_left, filters[k])],
                                table_schema, ctx)

\* The outer loop: the index fields in declaration order, up to the first
\* that no filter names.  The map of filters is built once, before the loop.
RECURSIVE index_filter_fields(_, _, _, _, _)
index_filter_fields(k, all_filters, st, table_schema, ctx) ==
    LET index_fields == table_schema.indices[ctx.index_name]
    IN  IF k > Len(index_fields) THEN st
        ELSE IF filter_by_field(all_filters, index_fields[k]) = <<>> THEN st
        ELSE index_filter_fields(
                 k + 1, all_filters,
                 index_filter_field(filter_by_field(all_filters, index_fields[k]), 1,
                                    index_fields[k], st, table_schema, ctx),
                 table_schema, ctx)

\* The first entry index_filter collects: the one after lhs_idx.
first_collected(lhs_idx) == lhs_idx + 1

\* index_filter.  index_mmap fails on a missing or empty index file and the
\* error is returned with filters_left as it was.
index_filter(index_name, filters_left, table_schema, index_file) ==
    IF ~index_file.exists \/ ~mmap_ok(index_file.bytes)
    THEN [res |-> "Err", selection |-> SelectionAll, filters_left |-> filters_left]
    ELSE LET index_row_byte_len == index_row_byte_size(table_schema, index_name)
             index_bytes == index_file.bytes
             ctx == [index_name |-> index_name, index_bytes |-> index_bytes]
             st == index_filter_fields(
                       1, filters_left,
                       [range |-> <<-1, Len(index_bytes) \div index_row_byte_len>>,
                        filters_left |-> filters_left],
                       table_schema, ctx)
             from == first_collected(st.range[1])
             out_positions ==
                 [n \in 1..(st.range[2] - from) |->
                     u64_from_le_bytes(
                         Slice(index_bytes,
                               (from + n - 1) * index_row_byte_len
                                   + index_row_ptr_field_byte_pos(table_schema, index_name),
                               TABLE_PTR_BYTE_SIZE))]
         IN  [res |-> "Ok", selection |-> SelectionList(out_positions),
              filters_left |-> st.filters_left]

\* Whether scan_filter counts a filter as a filter of this table.
is_table_filter(filter, table_schema) ==
    LET src == filter_source(filter)
    IN  IF src.kind = "Single" THEN src.source = table_schema.name
        ELSE src.sources = {table_schema.name}

\* value.cmp(rhs_value) == filter.op on the row at pos.
is_satisfy(filter, table_bytes, pos, table_schema) ==
    cmp(value_from_bytes(FieldSchemaOf(table_schema, filter.field.name),
                         SliceFrom(Slice(table_bytes, pos, row_byte_size(table_schema)),
                                   field_byte_pos(table_schema, filter.field.name))),
        filter.rhs.value) = filter.op

\* The inner loop of scan_filter at one position: pos is pushed once per
\* filter of the table that the row satisfies.
pushes_at(pos, table_filters, table_bytes, table_schema) ==
    LET satisfied == SelectSeq(table_filters,
                               LAMBDA f : is_satisfy(f, table_bytes, pos, table_schema))
    IN  [k \in 1..Len(satisfied) |-> pos]

RECURSIVE scan_positions(_, _, _, _, _)
scan_positions(positions, k, table_filters, table_bytes, table_schema) ==
    IF k > Len(positions) THEN <<>>
    ELSE pushes_at(positions[k], table_filters, table_bytes, table_schema)
         \o scan_positions(positions, k + 1, table_filters, table_bytes, table_schema)

\* scan_filter.  The two assertions and filter_source's assertion panic.
scan_filter(current_selection, filters, table_bytes, table_schema) ==
    LET table_byte_len == Len(table_bytes)
        row_byte_len == row_byte_size(table_schema)
    IN  IF \/ table_byte_len % row_byte_len # 0
           \/ filters = <<>>
           \/ \E k \in 1..Len(filters) : filter_source(filters[k]).kind = "panic"
        THEN [res |-> "panic", selection |-> current_selection, filters_left |-> filters]
        ELSE LET table_filters ==
                     SelectSeq(filters, LAMBDA f : is_table_filter(f, table_schema))
                 filtered_positions ==
                     scan_positions(SelectionIterator(current_selection, row_byte_len,
                                                      table_byte_len),
                                    1, table_filters, table_bytes, table_schema)
             IN  [res |-> "Ok", selection |-> SelectionList(filtered_positions),
                  filters_left |->
                      SelectSeq(filters, LAMBDA f : ~is_table_filter(f, table_schema))]

\* index_filterable_fields: the field names of the literal filters left.
index_filterable_fields(filters_left) ==
    {filters_left[k].field.name :
        k \in {j \in 1..Len(filters_left) : filters_left[j].rhs.kind = "Value"}}

\* execute_filters_on_single_tables, with index_choice the outcome of
\* index_for_query and index_files the table's index files.
execute_filters_on_single_tables(table_bytes, table_schema, filters_left, index_files, index_choice) ==
    LET indexed == IF index_choice = "None"
                   THEN [res |-> "Ok", selection |-> SelectionAll,
                         filters_left |-> filters_left]
                   ELSE index_filter(index_choice, filters_left, table_schema,
                                     index_files[index_choice])
    IN  IF indexed.res # "Ok" THEN indexed
        ELSE IF indexed.filters_left # <<>>
             THEN scan_filter(indexed.selection, indexed.filters_left,
                              table_bytes, table_schema)
             ELSE indexed

-----------------------------------------------------------------------------
(* The directory of the database and the inputs of the model.              *)

TableNames == {"t1", "t2"}
IndexNames == {"ix1", "ix2"}

NoFile == [exists |-> FALSE, bytes |-> <<>>]
File(bytes) == [exists |-> TRUE, bytes |-> bytes]

I32Fields == << [name |-> "f1", type |-> "I32"], [name |-> "f2", type |-> "I32"] >>

\* A table with a two-field index and a one-field index.
IndexedSchema(t) ==
    [name |-> t, fields |-> I32Fields,
     indices |-> [ix \in IndexNames |->
                     IF ix = "ix1" THEN <<"f1", "f2">> ELSE <<"f2">>]]

\* A table without indices.
PlainSchema(t) ==
    [name |-> t, fields |-> I32Fields, indices |-> [ix \in {} |-> <<>>]]

CreateTableQueries == {IndexedSchema(t) : t \in TableNames} \cup {PlainSchema(t) : t \in TableNames}

\* The values an insert supplies for a field; a field may also be left out.
InsertValues == {NULL, I32(-1), I32(1)}

ValueMaps(names, vals) ==
    UNION {[keys -> vals] : keys \in SUBSET names}

InsertQueries ==
    {[table |-> t, values |-> m] : t \in TableNames, m \in ValueMaps({"f1", "f2"}, InsertValues)}

RowCount(t) ==
    IF schemaFile[t].exists /\ dataFile[t].exists
    THEN Len(dataFile[t].bytes) \div row_byte_size(schemaFile[t].schema)
    ELSE 0

RECURSIVE SumOver(_, _)
SumOver(S, f) ==
    IF S = {} THEN 0
    ELSE LET x == CHOOSE x \in S : TRUE IN f[x] + SumOver(S \ {x}, f)

TotalRows == SumOver(TableNames, [t \in TableNames |-> RowCount(t)])

-----------------------------------------------------------------------------
(* pbase.rs: the PBase facade.                                             *)

\* run_insert_query, the row buffer: zero-filled, then every supplied I32
\* copied to its field's offset; NULL leaves the zeros.  The fields' slots
\* are disjoint, so the HashMap's iteration order does not show.
RECURSIVE insert_row_fields(_, _, _, _)
insert_row_fields(table_schema, values, names, bytes) ==
    IF names = {} THEN bytes
    ELSE LET field_name == CHOOSE n \in names : TRUE
             field_pos == field_byte_pos(table_schema, field_name)
             written == IF values[field_name].tag = "I32"
                        THEN WriteAt(bytes, field_pos, i32_to_le_bytes(values[field_name].v))
                        ELSE bytes
         IN  insert_row_fields(table_schema, values, names \ {field_name}, written)

insert_row_bytes(table_schema, values) ==
    insert_row_fields(table_schema, values, DOMAIN values,
                      Zeros(row_byte_size(table_schema)))

\* A write that replaces the file's content instead of appending to it.
append_truncating(data_file, bytes) == File(bytes)

\* A write that puts the new row in front of the rows already there.
append_in_front(data_file, bytes) ==
    File(bytes \o (IF data_file.exists THEN data_file.bytes ELSE <<>>))

\* OpenOptions create(true).append(true) on the data file, then write: the
\* file is created when absent and the row lands at its end.
append_to_data_file(data_file, bytes) ==
    File((IF data_file.exists THEN data_file.bytes ELSE <<>>) \o bytes)

\* A "Save" step that writes the new entry at the end of the index file,
\* wherever its key belongs.
insert_to_index_at_end(index_name, index_fields, query, table_schema, index_file) ==
    [file |-> File((IF index_file.exists THEN index_file.bytes ELSE <<>>)
                   \o index_row_to_bytes(table_schema, index_name, query.values, 0)),
     res |-> "Ok"]

\* insert_to_index.  The index file is opened with create(true),
\* write(true), truncate(false): created empty when absent, kept as it is
\* otherwise.  The map of it fails, an empty file having nothing to map and
\* a handle opened for writing only not being mappable for reading, and the
\* error is returned.  Nothing is written to the file: the "Divide index
\* list + insert + merge" and "Save" steps are comments.
insert_to_index(index_name, index_fields, query, table_schema, index_file) ==
    [file |-> File(IF index_file.exists THEN index_file.bytes ELSE <<>>),
     res |-> "Err"]

\* run_create_table_query: File::create of the schema file and of the data
\* file (both truncated when they exist).  Index files are not touched.
CreateTable(schema) ==
    /\ schemaFile' = [schemaFile EXCEPT ![schema.name] = [exists |-> TRUE, schema |-> schema]]
    /\ dataFile' = [dataFile EXCEPT ![schema.name] = File(<<>>)]
    /\ okInserts' = [okInserts EXCEPT ![schema.name] = 0]
    /\ out' = [op |-> "create", table |-> schema.name, res |-> "Ok"]
    /\ UNCHANGED indexFile

\* run_insert_query.  A missing schema file is an error before anything is
\* written.  Otherwise the row is appended, insert_to_index is called for
\* every index of the schema with its result dropped (out.indexed keeps it
\* for the record), and Ok(1) is returned.
\* An insert that opens the data file, creating it, before it looks for the
\* schema file.
InsertDataFileFirst(query) ==
    LET t == query.table
    IN  /\ ~schemaFile[t].exists
        /\ dataFile' = [dataFile EXCEPT ![t] = File(@.bytes)]
        /\ out' = [op |-> "insert", table |-> t, res |-> "Err"]
        /\ UNCHANGED <<schemaFile, indexFile, okInserts>>

Insert(query) ==
    LET t == query.table
    IN  IF ~schemaFile[t].exists
        THEN /\ out' = [op |-> "insert", table |-> t, res |-> "Err"]
             /\ UNCHANGED <<schemaFile, dataFile, indexFile, okInserts>>
        ELSE LET table_schema == schemaFile[t].schema
                 bytes == insert_row_bytes(table_schema, query.values)
                 spliced == [ix \in DOMAIN table_schema.indices |->
                                insert_to_index(ix, table_schema.indices[ix], query,
                                                table_schema, indexFile[t][ix])]
             IN  /\ TotalRows < MaxRows
                 /\ dataFile' = [dataFile EXCEPT ![t] = append_to_data_file(@, bytes)]
                 /\ indexFile' = [indexFile EXCEPT ![t] =
                                     [ix \in IndexNames |->
                                         IF ix \in DOMAIN spliced THEN spliced[ix].file ELSE @[ix]]]
                 /\ okInserts' = [okInserts EXCEPT ![t] = @ + 1]
                 /\ out' = [op |-> "insert", table |-> t, res |-> "Ok", row |-> bytes,
                            pos |-> Len(dataFile[t].bytes),
                            indexed |-> [ix \in DOMAIN spliced |-> spliced[ix].res]]
                 /\ UNCHANGED schemaFile

Init ==
    /\ schemaFile = [t \in TableNames |-> [exists |-> FALSE]]
    /\ dataFile = [t \in TableNames |-> NoFile]
    /\ indexFile = [t \in TableNames |-> [ix \in IndexNames |-> NoFile]]
    /\ okInserts = [t \in TableNames |-> 0]
    /\ out = [op |-> "init"]

Next ==
    \/ \E schema \in CreateTableQueries : CreateTable(schema)
    \/ \E query \in InsertQueries : Insert(query)

Spec == Init /\ [][Next]_vars

-----------------------------------------------------------------------------
(* SpecQuery: the facade and the single-table steps of the executor.       *)

QueryCreateTableQueries == {IndexedSchema("t1"), PlainSchema("t2")}

QueryInsertValues == {I32(-1), I32(1)}

QueryInsertQueries ==
    {[table |-> t, values |-> m] : t \in TableNames, m \in [{"f1", "f2"} -> QueryInsertValues]}

\* The filters of a query: literal filters on t1.f1, t1.f2 and t2.f1, and a
\* filter that compares t1.f1 with t2.f1.
QueryFilters ==
    {RowFilter(FieldSelector("t1", "f1"), "Equal", RhsLiteral(I32(1))),
     RowFilter(FieldSelector("t1", "f2"), "Greater", RhsLiteral(I32(0))),
     RowFilter(FieldSelector("t2", "f1"), "Greater", RhsLiteral(I32(0))),
     RowFilter(FieldSelector("t1", "f1"), "Equal", RhsRef(FieldSelector("t2", "f1")))}

\* The filters handed to the index step alone: every operator on the leading
\* field of each index, and a filter on the same field name of another table.
IndexFilters ==
    {RowFilter(FieldSelector("t1", "f1"), "Less", RhsLiteral(I32(1))),
     RowFilter(FieldSelector("t1", "f1"), "Equal", RhsLiteral(I32(1))),
     RowFilter(FieldSelector("t1", "f1"), "Greater", RhsLiteral(I32(-1))),
     RowFilter(FieldSelector("t1", "f2"), "Greater", RhsLiteral(I32(-1))),
     RowFilter(FieldSelector("t2", "f1"), "Less", RhsLiteral(I32(1)))}

MaxFilters == 2

FilterSeqs(filters, min) == UNION {[1..n -> filters] : n \in min..MaxFilters}

\* The selections a scan is handed: all rows, and every row last first.
ScanSelections(t) ==
    {SelectionAll,
     SelectionList([k \in 1..RowCount(t) |->
                       (RowCount(t) - k) * row_byte_size(schemaFile[t].schema)])}

\* call has opened the schema and mapped the data file of every table of the
\* query before it filters any of them.
TableOpened(t) ==
    schemaFile[t].exists /\ dataFile[t].exists /\ mmap_ok(dataFile[t].bytes)

\* execute_filters_on_single_tables on table t with filters_left.
ExecuteFilters(t, filters_left) ==
    /\ TableOpened(t)
    /\ \E index_choice \in index_for_query(schemaFile[t].schema,
                                           index_filterable_fields(filters_left)) :
          LET r == execute_filters_on_single_tables(
                       dataFile[t].bytes, schemaFile[t].schema, filters_left,
                       indexFile[t], index_choice)
          IN  out' = [op |-> "execute_filters", table |-> t, filters |-> filters_left,
                      index |-> index_choice, res |-> r.res,
                      selection |-> r.selection, filters_left |-> r.filters_left]
    /\ UNCHANGED <<schemaFile, dataFile, indexFile, okInserts>>

\* scan_filter on table t.
ScanFilter(t, current_selection, filters) ==
    /\ TableOpened(t)
    /\ LET r == scan_filter(current_selection, filters, dataFile[t].bytes,
                            schemaFile[t].schema)
       IN  out' = [op |-> "scan_filter", table |-> t, filters |-> filters,
                   current_selection |-> current_selection, res |-> r.res,
                   selection |-> r.selection, filters_left |-> r.filters_left]
    /\ UNCHANGED <<schemaFile, dataFile, indexFile, okInserts>>

NextQuery ==
    \/ \E schema \in QueryCreateTableQueries : CreateTable(schema)
    \/ \E query \in QueryInsertQueries : Insert(query)
    \/ \E t \in TableNames : \E filters \in FilterSeqs(QueryFilters, 0) : ExecuteFilters(t, filters)
    \/ \E t \in TableNames : \E filters \in FilterSeqs(QueryFilters, 1) :
          \E selection \in ScanSelections(t) : ScanFilter(t, selection, filters)

SpecQuery == Init /\ [][NextQuery]_vars

-----------------------------------------------------------------------------
(* SpecIndex: the index functions on a table image with sorted indices.    *)

IndexKeyValues == {I32(-1), I32(1)}

FindKeyValues == {NULL, I32(-2), I32(-1), I32(0), I32(1)}

RowImages ==
    {insert_row_bytes(IndexedSchema("t1"), m) : m \in [{"f1", "f2"} -> IndexKeyValues]}

RECURSIVE Concat(_)
Concat(seqs) == IF seqs = <<>> THEN <<>> ELSE seqs[1] \o Concat(Tail(seqs))

\* Lexicographic comparison of two keys of the same length.
RECURSIVE KeyCmp(_, _)
KeyCmp(k1, k2) ==
    IF k1 = <<>> THEN "Equal"
    ELSE LET c == cmp(k1[1], k2[1])
         IN  IF c = "Equal" THEN KeyCmp(Tail(k1), Tail(k2)) ELSE c

\* The key of the data row at byte offset pos, for index ix.
RowKey(table_schema, ix, data_bytes, pos) ==
    LET index_fields == table_schema.indices[ix]
        row == parse_row_bytes(table_schema, Slice(data_bytes, pos, row_byte_size(table_schema)))
    IN  [k \in 1..Len(index_fields) |-> row[index_fields[k]]]

\* The index file the layout calls for: one entry per row of data_bytes, in
\* key order, rows of equal keys in the order of their offsets.
SortedIndexImage(table_schema, ix, data_bytes) ==
    LET rs == row_byte_size(table_schema)
        n == Len(data_bytes) \div rs
        key(r) == RowKey(table_schema, ix, data_bytes, r * rs)
        rank(r) == Cardinality({q \in 0..(n - 1) :
                                   \/ KeyCmp(key(q), key(r)) = "Less"
                                   \/ KeyCmp(key(q), key(r)) = "Equal" /\ q < r})
        at(p) == CHOOSE r \in 0..(n - 1) : rank(r) = p
    IN  Concat([p \in 1..n |->
                   index_row_to_bytes(table_schema, ix,
                                      parse_row_bytes(table_schema,
                                                      Slice(data_bytes, at(p - 1) * rs, rs)),
                                      at(p - 1) * rs)])

InitIndex ==
    /\ schemaFile = [t \in TableNames |->
                        IF t = "t1" THEN [exists |-> TRUE, schema |-> IndexedSchema("t1")]
                        ELSE [exists |-> FALSE]]
    /\ \E rows \in UNION {[1..n -> RowImages] : n \in 0..MaxEntries} :
          /\ dataFile = [t \in TableNames |->
                            IF t = "t1" THEN File(Concat(rows)) ELSE NoFile]
          /\ indexFile = [t \in TableNames |-> [ix \in IndexNames |->
                             IF t = "t1"
                             THEN File(SortedIndexImage(IndexedSchema("t1"), ix, Concat(rows)))
                             ELSE NoFile]]
          /\ okInserts = [t \in TableNames |-> IF t = "t1" THEN Len(rows) ELSE 0]
    /\ out = [op |-> "init"]

\* find_insert_pos_in_index on index ix of t1 with the key index_values.
FindInsertPos(ix, index_values) ==
    /\ out' = [op |-> "find_insert_pos", index |-> ix, key |-> index_values,
               pos |-> find_insert_pos_in_index(ix, indexFile["t1"][ix].bytes,
                                                index_values, schemaFile["t1"].schema)]
    /\ UNCHANGED <<schemaFile, dataFile, indexFile, okInserts>>

\* index_filter on index ix of t1.
IndexFilter(ix, filters_left) ==
    /\ LET r == index_filter(ix, filters_left, schemaFile["t1"].schema, indexFile["t1"][ix])
       IN  out' = [op |-> "index_filter", index |-> ix, filters |-> filters_left,
                   res |-> r.res, selection |-> r.selection,
                   filters_left |-> r.filters_left]
    /\ UNCHANGED <<schemaFile, dataFile, indexFile, okInserts>>

NextIndex ==
    \E ix \in IndexNames :
       \E index_values \in [1..Len(IndexedSchema("t1").indices[ix]) -> FindKeyValues] :
          FindInsertPos(ix, index_values)

SpecIndex == InitIndex /\ [][NextIndex]_vars

NextIndexFilter ==
    \E ix \in IndexNames : \E filters \in FilterSeqs(IndexFilters, 1) : IndexFilter(ix, filters)

SpecIndexFilter == InitIndex /\ [][NextIndexFilter]_vars

\* The filters of the index step set against a scan: on the leading field an
\* equality and inequalities that keep entries of several values, on the
\* second field an equality and an inequality.
RangeFilters ==
    {RowFilter(FieldSelector("t1", "f1"), "Equal", RhsLiteral(I32(1))),
     RowFilter(FieldSelector("t1", "f1"), "Greater", RhsLiteral(I32(-2))),
     RowFilter(FieldSelector("t1", "f1"), "Less", RhsLiteral(I32(1))),
     RowFilter(FieldSelector("t1", "f2"), "Equal", RhsLiteral(I32(1))),
     RowFilter(FieldSelector("t1", "f2"), "Less", RhsLiteral(I32(1)))}

NextIndexScan ==
    \E ix \in IndexNames : \E filters \in FilterSeqs(RangeFilters, 1) : IndexFilter(ix, filters)

SpecIndexScan == InitIndex /\ [][NextIndexScan]_vars

-----------------------------------------------------------------------------
(* multi_table_view.rs: MultiTableView.  A view is [view, tables]: view is *)
(* the sequence of view-rows, each a sequence of row positions; tables is  *)
(* the HashMap from table name to the 0-based column of its positions.     *)

\* FieldSelector::full_name.
full_name(field_selector) == field_selector.source \o "." \o field_selector.name

JoinContract(lhs, rhs) == [join_type |-> "Inner", lhs |-> lhs, rhs |-> rhs]

\* MultiTableView::new_from_table_bytes_and_selection.
new_from_table_bytes_and_selection(table_bytes, table_schema, selection) ==
    LET positions == IF selection.kind = "All"
                     THEN TableRowPositionIterator(row_byte_size(table_schema),
                                                   Len(table_bytes))
                     ELSE selection.positions
    IN  [view |-> [k \in 1..Len(positions) |-> <<positions[k]>>],
         tables |-> [t \in {table_schema.name} |-> 0]]

\* A loop over the rhs rows that stops at the first match.
join_old_view_row_first_match(old_view_row, lhs_value, rhs_positions, rhs_bytes, rhs_schema, rhs_match_field_name) ==
    LET matching ==
            SelectSeq(rhs_positions,
                      LAMBDA p : value_eq(lhs_value,
                                          get_field_value(rhs_schema,
                                                          Slice(rhs_bytes, p, row_byte_size(rhs_schema)),
                                                          rhs_match_field_name)) = "true")
    IN  IF matching = <<>> THEN <<>> ELSE << Append(old_view_row, matching[1]) >>

\* inner_join, the loop over the rhs rows for one old view-row: the old row
\* with the position of a matching rhs row pushed, one new row per match.
join_old_view_row(old_view_row, lhs_value, rhs_positions, rhs_bytes, rhs_schema, rhs_match_field_name) ==
    LET matching ==
            SelectSeq(rhs_positions,
                      LAMBDA p : value_eq(lhs_value,
                                          get_field_value(rhs_schema,
                                                          Slice(rhs_bytes, p, row_byte_size(rhs_schema)),
                                                          rhs_match_field_name)) = "true")
    IN  [k \in 1..Len(matching) |-> Append(old_view_row, matching[k])]

\* MultiTableView::inner_join.  The rhs table is registered at column
\* tables.len().  Indexing tables by a name it does not hold, a view-row by
\* a column it does not have, or the table bytes past their end, panics.
inner_join(self, selection, lhs_table_name, rhs_table_name, lhs_match_field_name, rhs_match_field_name, table_bytes_map, table_schema_map) ==
    LET tables == [t \in DOMAIN self.tables \cup {rhs_table_name} |->
                      IF t = rhs_table_name THEN Cardinality(DOMAIN self.tables)
                      ELSE self.tables[t]]
        old_view == self.view
        lhs_schema == table_schema_map[lhs_table_name]
        rhs_schema == table_schema_map[rhs_table_name]
        rhs_positions == TableRowIterator(rhs_schema, table_bytes_map[rhs_table_name], selection)
        lhs_pos(k) == old_view[k][tables[lhs_table_name] + 1]
        lhs_value(k) == get_field_value(lhs_schema,
                                        SliceFrom(table_bytes_map[lhs_table_name], lhs_pos(k)),
                                        lhs_match_field_name)
    IN  IF lhs_table_name \notin DOMAIN tables
        THEN [res |-> "panic", view |-> self]
        ELSE IF \E k \in 1..Len(old_view) :
                   \/ tables[lhs_table_name] >= Len(old_view[k])
                   \/ lhs_pos(k) + field_byte_pos(lhs_schema, lhs_match_field_name)
                          + byte_size(FieldSchemaOf(lhs_schema, lhs_match_field_name))
                        > Len(table_bytes_map[lhs_table_name])
             THEN [res |-> "panic", view |-> self]
        ELSE IF /\ old_view # <<>>
                /\ \E j \in 1..Len(rhs_positions) :
                      rhs_positions[j] + row_byte_size(rhs_schema)
                          > Len(table_bytes_map[rhs_table_name])
             THEN [res |-> "panic", view |-> self]
        ELSE [res |-> "Ok",
              view |-> [view |-> Concat([k \in 1..Len(old_view) |->
                                            join_old_view_row(old_view[k], lhs_value(k),
                                                              rhs_positions,
                                                              table_bytes_map[rhs_table_name],
                                                              rhs_schema, rhs_match_field_name)]),
                        tables |-> tables]]

\* MultiTableViewRowReader::table_reader and get_field_value: the value of
\* a field of a table at a view-row.
view_field_value(view_row, tables, field_selector, table_bytes_map, table_schema_map) ==
    LET table_schema == table_schema_map[field_selector.source]
        table_row_pos == view_row[tables[field_selector.source] + 1]
    IN  get_field_value(table_schema,
                        Slice(table_bytes_map[field_selector.source], table_row_pos,
                              row_byte_size(table_schema)),
                        field_selector.name)

\* Output fields that leave the joined tables out.
output_fields_main_table(from, joins, table_schema_map) ==
    [k \in 1..Len(table_schema_map[from].fields) |->
        FieldSelector(from, table_schema_map[from].fields[k].name)]

\* materialize_view, the output fields: the fields of the main table, then
\* the fields of every join's rhs table, in declaration order.
output_fields(from, joins, table_schema_map) ==
    LET fields_of(t) == [k \in 1..Len(table_schema_map[t].fields) |->
                            FieldSelector(t, table_schema_map[t].fields[k].name)]
    IN  fields_of(from) \o Concat([j \in 1..Len(joins) |-> fields_of(joins[j].rhs.source)])

\* materialize_view: one HashMap per view-row, keyed by the full names of
\* the output fields.  Output fields of one full name read the same value.
materialize_view(from, joins, view, table_bytes_map, table_schema_map) ==
    LET fields == output_fields(from, joins, table_schema_map)
        keys == {full_name(fields[k]) : k \in 1..Len(fields)}
        field_of(key) == fields[CHOOSE k \in 1..Len(fields) : full_name(fields[k]) = key]
    IN  [i \in 1..Len(view.view) |->
            [key \in keys |->
                view_field_value(view.view[i], view.tables, field_of(key),
                                 table_bytes_map, table_schema_map)]]

-----------------------------------------------------------------------------
(* SpecView: MultiTableView and materialize_view on two table images.      *)

\* Rows of each table image drawn by SpecView.
MaxViewRows == 2

\* Joins of one view.
MaxJoins == 2

\* t1(id: U8, value: I32) and t2(t1_id: U8, v2: I32), without indices.
ViewSchema(t) ==
    [name |-> t,
     fields |-> IF t = "t1"
                THEN << [name |-> "id", type |-> "U8"], [name |-> "value", type |-> "I32"] >>
                ELSE << [name |-> "t1_id", type |-> "U8"], [name |-> "v2", type |-> "I32"] >>,
     indices |-> [ix \in {} |-> <<>>]]

\* The rows of the images: (0, 0) and (1, -1).
ViewRowImages(t) ==
    LET fields == ViewSchema(t).fields
    IN  {data_row_to_bytes(ViewSchema(t),
                           [f \in {fields[1].name, fields[2].name} |->
                               IF f = fields[1].name THEN U8(v) ELSE I32(-v)]) : v \in {0, 1}}

ViewImages(t) == {Concat(rows) : rows \in UNION {[1..n -> ViewRowImages(t)] : n \in 0..MaxViewRows}}

\* The joins of the model: on the two U8 fields in either direction, on the
\* two I32 fields, and on a U8 field against an I32 field.
ViewJoinContracts ==
    {JoinContract(FieldSelector("t1", "id"), FieldSelector("t2", "t1_id")),
     JoinContract(FieldSelector("t2", "t1_id"), FieldSelector("t1", "id")),
     JoinContract(FieldSelector("t1", "value"), FieldSelector("t2", "v2")),
     JoinContract(FieldSelector("t1", "id"), FieldSelector("t2", "v2"))}

InitView ==
    /\ schemaFile = [t \in TableNames |-> [exists |-> TRUE, schema |-> ViewSchema(t)]]
    /\ \E image \in [TableNames -> ViewImages("t1") \cup ViewImages("t2")] :
          /\ \A t \in TableNames : image[t] \in ViewImages(t)
          /\ dataFile = [t \in TableNames |-> File(image[t])]
          /\ okInserts = [t \in TableNames |->
                             Len(image[t]) \div row_byte_size(ViewSchema(t))]
    /\ indexFile = [t \in TableNames |-> [ix \in IndexNames |-> NoFile]]
    /\ out = [op |-> "init"]

\* The table_bytes_map and table_schema_map handed to the view.
TableBytesMap == [t \in TableNames |-> dataFile[t].bytes]
TableSchemaMap == [t \in TableNames |-> schemaFile[t].schema]

\* The last operation left a view.
HasView == out.op \in {"new_view", "join"} /\ out.res = "Ok"

\* MultiTableView::new_from_table_bytes_and_selection on table t.
NewView(t, selection) ==
    /\ out' = [op |-> "new_view", from |-> t, joins |-> <<>>, selection |-> selection,
               res |-> "Ok",
               view |-> new_from_table_bytes_and_selection(dataFile[t].bytes,
                                                           schemaFile[t].schema, selection)]
    /\ UNCHANGED <<schemaFile, dataFile, indexFile, okInserts>>

\* MultiTableView::join of the view at hand with the rhs table of the
\* contract, restricted to selection.
Join(contract, selection) ==
    /\ HasView
    /\ Len(out.joins) < MaxJoins
    /\ LET r == inner_join(out.view, selection, contract.lhs.source, contract.rhs.source,
                           contract.lhs.name, contract.rhs.name,
                           TableBytesMap, TableSchemaMap)
       IN  out' = [op |-> "join", from |-> out.from, joins |-> Append(out.joins, contract),
                   contract |-> contract, selection |-> selection, old |-> out.view,
                   res |-> r.res, view |-> r.view]
    /\ UNCHANGED <<schemaFile, dataFile, indexFile, okInserts>>

\* materialize_view of the view at hand, for the query that built it.
Materialize ==
    /\ HasView
    /\ out' = [op |-> "materialize", from |-> out.from, joins |-> out.joins,
               view |-> out.view,
               rows |-> materialize_view(out.from, out.joins, out.view,
                                         TableBytesMap, TableSchemaMap)]
    /\ UNCHANGED <<schemaFile, dataFile, indexFile, okInserts>>

NextView ==
    \/ \E t \in TableNames : \E selection \in ScanSelections(t) : NewView(t, selection)
    \/ \E contract \in ViewJoinContracts :
          \E selection \in ScanSelections(contract.rhs.source) : Join(contract, selection)
    \/ Materialize

SpecView == InitView /\ [][NextView]_vars

-----------------------------------------------------------------------------
(* The two SELECT entry points: SelectQueryExecutor::call (query_tools.rs) *)
(* and PBase::run_select_query (pbase.rs).  An outcome is [res, err, at]:  *)
(* res is "Ok", "Err" or "panic", err the error value, at the step that    *)
(* ended the call.                                                         *)

SelectQuery(from, joins, filters) == [from |-> from, joins |-> joins, filters |-> filters]

\* The main table, then the rhs table of every join.
query_tables(query) ==
    <<query.from>> \o [j \in 1..Len(query.joins) |-> query.joins[j].rhs.source]

\* call, the loop that derives a Selection for every table of the query,
\* handing the filters left from one table to the next.  index_for_query
\* may have more than one outcome, so this is the set of the outcomes.
RECURSIVE call_filter_tables(_, _, _, _, _, _, _)
call_filter_tables(tables, k, filters_left, selections, table_bytes_map, table_schema_map, index_files) ==
    IF k > Len(tables)
    THEN {[res |-> "Ok", selections |-> selections, filters_left |-> filters_left]}
    ELSE LET t == tables[k]
         IN  UNION {LET r == execute_filters_on_single_tables(
                                 table_bytes_map[t], table_schema_map[t], filters_left,
                                 index_files[t], index_choice)
                    IN  IF r.res # "Ok"
                        THEN {[res |-> r.res, selections |-> selections,
                               filters_left |-> r.filters_left]}
                        ELSE call_filter_tables(tables, k + 1, r.filters_left,
                                                [selections EXCEPT ![t] = r.selection],
                                                table_bytes_map, table_schema_map, index_files) :
                    index_choice \in index_for_query(table_schema_map[t],
                                                     index_filterable_fields(filters_left))}

\* generate_multi_table_view, the loop over the joins.
RECURSIVE join_all(_, _, _, _, _, _)
join_all(view, joins, k, selections, table_bytes_map, table_schema_map) ==
    IF k > Len(joins) THEN [res |-> "Ok", view |-> view]
    ELSE LET r == inner_join(view, selections[joins[k].rhs.source],
                             joins[k].lhs.source, joins[k].rhs.source,
                             joins[k].lhs.name, joins[k].rhs.name,
                             table_bytes_map, table_schema_map)
         IN  IF r.res # "Ok" THEN r
             ELSE join_all(r.view, joins, k + 1, selections, table_bytes_map, table_schema_map)

generate_multi_table_view(query, selections, table_bytes_map, table_schema_map) ==
    join_all(new_from_table_bytes_and_selection(table_bytes_map[query.from],
                                                table_schema_map[query.from],
                                                selections[query.from]),
             query.joins, 1, selections, table_bytes_map, table_schema_map)

\* SelectQueryExecutor::call: the set of its outcomes.  The schemas are
\* opened, then the data files mapped, then the tables filtered and the view
\* assembled; then comes todo!(), which panics, so that materialize_view is
\* never reached.
call(query, schema_files, data_files, index_files) ==
    LET tables == query_tables(query)
        table_schema_map == [t \in DOMAIN schema_files |->
                                IF schema_files[t].exists THEN schema_files[t].schema
                                ELSE [name |-> t]]
        table_bytes_map == [t \in DOMAIN data_files |-> data_files[t].bytes]
    IN  IF \E k \in 1..Len(tables) : ~schema_files[tables[k]].exists
        THEN {[res |-> "Err", err |-> "io", at |-> "open_schema"]}
        ELSE IF \E k \in 1..Len(tables) :
                   ~data_files[tables[k]].exists \/ ~mmap_ok(data_files[tables[k]].bytes)
        THEN {[res |-> "Err", err |-> "io", at |-> "table_mmap"]}
        ELSE {IF f.res = "Err" THEN [res |-> "Err", err |-> "io", at |-> "index_filter"]
              ELSE IF f.res = "panic" THEN [res |-> "panic", err |-> "none", at |-> "scan_filter"]
              ELSE IF generate_multi_table_view(query, f.selections, table_bytes_map,
                                                table_schema_map).res = "panic"
                   THEN [res |-> "panic", err |-> "none", at |-> "generate_multi_table_view"]
                   ELSE [res |-> "panic", err |-> "none", at |-> "todo"] :
              f \in call_filter_tables(tables, 1, query.filters,
                                       [t \in DOMAIN data_files |-> SelectionAll],
                                       table_bytes_map, table_schema_map, index_files)}

\* PBase::run_select_query: the data file and the schema are opened, the
\* data file is mapped, its length is checked against the row size, and
\* every row is decoded in file order.  Joins and filters are not looked at.
run_select_query(query, schema_files, data_files) ==
    LET t == query.from
    IN  IF ~data_files[t].exists \/ ~schema_files[t].exists \/ ~mmap_ok(data_files[t].bytes)
        THEN [res |-> "Err", err |-> "io", at |-> "open"]
        ELSE LET table_byte_len == Len(data_files[t].bytes)
                 row_byte_len == row_byte_size(schema_files[t].schema)
             IN  IF table_byte_len % row_byte_len # 0
                 THEN [res |-> "Err", err |-> "InvalidTableSizeError", at |-> "size"]
                 ELSE [res |-> "Ok", err |-> "none", at |-> "end",
                       rows |-> [k \in 1..(table_byte_len \div row_byte_len) |->
                                    parse_row_bytes(schema_files[t].schema,
                                                    Slice(data_files[t].bytes,
                                                          (k - 1) * row_byte_len,
                                                          row_byte_len))]]

-----------------------------------------------------------------------------
(* SpecSelect: the two SELECT entry points on the directory PBase::new is  *)
(* handed.  The directory holds t1 and t2 as earlier runs left them: t1    *)
(* with or without indices, its index files empty (as run_insert_query     *)
(* leaves them) or in the sorted layout, and its data file whole or cut    *)
(* short after the first byte of a row.                                    *)

\* Rows of each data file drawn by SpecSelect.
MaxSelectRows == 2

\* The rows of the data files: (1, 1) and (-1, 1).
SelectRowImages ==
    {insert_row_bytes(PlainSchema("t1"), [f \in {"f1", "f2"} |-> IF f = "f1" THEN I32(v) ELSE I32(1)]) :
        v \in {-1, 1}}

SelectImages == {Concat(rows) : rows \in UNION {[1..n -> SelectRowImages] : n \in 0..MaxSelectRows}}

\* The bytes a cut-short append leaves after the last whole row.
TornTails == {<<>>, <<1>>}

IndexLayouts == {"none", "empty", "sorted"}

InitDir ==
    \E layout \in IndexLayouts : \E image1 \in SelectImages : \E image2 \in SelectImages :
       \E tail \in TornTails :
          LET schema1 == IF layout = "none" THEN PlainSchema("t1") ELSE IndexedSchema("t1")
          IN  /\ schemaFile = [t \in TableNames |->
                                  [exists |-> TRUE,
                                   schema |-> IF t = "t1" THEN schema1 ELSE PlainSchema("t2")]]
              /\ dataFile = [t \in TableNames |->
                                IF t = "t1" THEN File(image1 \o tail) ELSE File(image2)]
              /\ indexFile = [t \in TableNames |-> [ix \in IndexNames |->
                                 IF t = "t2" \/ layout = "none" THEN NoFile
                                 ELSE IF layout = "empty" THEN File(<<>>)
                                 ELSE File(SortedIndexImage(schema1, ix, image1))]]
              /\ okInserts = [t \in TableNames |->
                                 Len(IF t = "t1" THEN image1 ELSE image2)
                                     \div row_byte_size(PlainSchema(t))]
              /\ out = [op |-> "init"]

\* The queries of the model: all of t1; t1 under a literal filter; t1 under
\* a filter that compares two of its own fields; t1 joined with t2, without
\* a filter and under a filter that compares a field of each.
SelectQueries ==
    LET join == JoinContract(FieldSelector("t1", "f1"), FieldSelector("t2", "f1"))
    IN  {SelectQuery("t1", <<>>, <<>>),
         SelectQuery("t1", <<>>,
                     << RowFilter(FieldSelector("t1", "f1"), "Equal", RhsLiteral(I32(1))) >>),
         SelectQuery("t1", <<>>,
                     << RowFilter(FieldSelector("t1", "f1"), "Equal",
                                  RhsRef(FieldSelector("t1", "f2"))) >>),
         SelectQuery("t1", <<join>>, <<>>),
         SelectQuery("t1", <<join>>,
                     << RowFilter(FieldSelector("t1", "f2"), "Equal",
                                  RhsRef(FieldSelector("t2", "f2"))) >>)}

\* SelectQueryExecutor::call.
Call(query) ==
    /\ \E r \in call(query, schemaFile, dataFile, indexFile) :
          out' = [op |-> "call", query |-> query, res |-> r.res, err |-> r.err, at |-> r.at]
    /\ UNCHANGED <<schemaFile, dataFile, indexFile, okInserts>>

\* PBase::run_select_query.
RunSelectQuery(query) ==
    /\ LET r == run_select_query(query, schemaFile, dataFile)
       IN  out' = IF r.res = "Ok"
                  THEN [op |-> "run_select_query", query |-> query, res |-> r.res,
                        err |-> r.err, at |-> r.at, rows |-> r.rows]
                  ELSE [op |-> "run_select_query", query |-> query, res |-> r.res,
                        err |-> r.err, at |-> r.at]
    /\ UNCHANGED <<schemaFile, dataFile, indexFile, okInserts>>

NextSelect ==
    \/ \E query \in SelectQueries : Call(query)
    \/ \E query \in SelectQueries : RunSelectQuery(query)

SpecSelect == InitDir /\ [][NextSelect]_vars

-----------------------------------------------------------------------------
(* SpecValue: the ordering and the equality of Value on drawn values.      *)

\* The values compared: NULL, and of each tag its zero, a value next to it
\* and an extreme.
ValueSamples == {NULL, I32(-1), I32(0), I32(1), U8(0), U8(1), U8(255)}

InitValue ==
    /\ schemaFile = [t \in TableNames |-> [exists |-> FALSE]]
    /\ dataFile = [t \in TableNames |-> NoFile]
    /\ indexFile = [t \in TableNames |-> [ix \in IndexNames |-> NoFile]]
    /\ okInserts = [t \in TableNames |-> 0]
    /\ \E a \in ValueSamples : \E b \in ValueSamples : \E c \in ValueSamples :
          out = [op |-> "init", a |-> a, b |-> b, c |-> c]

\* Ord::cmp on the pairs of the three values, and Value == on the first two.
Compare ==
    /\ out.op = "init"
    /\ out' = [op |-> "cmp", a |-> out.a, b |-> out.b, c |-> out.c,
               aa |-> cmp(out.a, out.a),
               ab |-> cmp(out.a, out.b), ba |-> cmp(out.b, out.a),
               bc |-> cmp(out.b, out.c), ac |-> cmp(out.a, out.c),
               eq |-> value_eq(out.a, out.b)]
    /\ UNCHANGED <<schemaFile, dataFile, indexFile, okInserts>>

NextValue == Compare

SpecValue == InitValue /\ [][NextValue]_vars

-----------------------------------------------------------------------------
(* SpecCodec: the row codec of TableSchema on drawn schemas, row images    *)
(* and value maps.                                                         *)

\* The schemas of the codec: one to three fields f1, f2, f3 of either type.
CodecSchemas ==
    {[name |-> "t1",
      fields |-> [k \in 1..Len(types) |->
                     [name |-> <<"f1", "f2", "f3">>[k], type |-> types[k]]],
      indices |-> [ix \in {} |-> <<>>]] :
        types \in {<<"I32">>, <<"U8">>, <<"U8", "I32">>, <<"I32", "U8">>, <<"U8", "U8">>,
                   <<"U8", "I32", "U8">>}}

\* The bytes of a drawn row image: the lowest, the highest and the two
\* around the sign bit's neighbourhood.
CodecBytes == {0, 1, 128, 255}

\* The values supplied for a field of the given type.
CodecValues(field_schema) ==
    IF field_schema = "U8" THEN {NULL, U8(1), U8(255)} ELSE {NULL, I32(-1), I32(1)}

\* The value maps of an insert into the schema: any subset of the fields,
\* each with NULL or a value of its type.
CodecValueMaps(table_schema) ==
    {values \in UNION {[names -> ValueSamples] : names \in SUBSET FieldNames(table_schema)} :
        \A f \in DOMAIN values : values[f] \in CodecValues(FieldSchemaOf(table_schema, f))}

InitCodec ==
    /\ \E table_schema \in CodecSchemas :
          /\ schemaFile = [t \in TableNames |->
                              IF t = "t1" THEN [exists |-> TRUE, schema |-> table_schema]
                              ELSE [exists |-> FALSE]]
          /\ \/ \E bytes \in [1..row_byte_size(table_schema) -> CodecBytes] :
                   out = [op |-> "init", bytes |-> bytes]
             \/ \E values \in CodecValueMaps(table_schema) :
                   out = [op |-> "init", values |-> values]
    /\ dataFile = [t \in TableNames |-> NoFile]
    /\ indexFile = [t \in TableNames |-> [ix \in IndexNames |-> NoFile]]
    /\ okInserts = [t \in TableNames |-> 0]

\* parse_row_bytes of a row image, then data_row_to_bytes of the result.
RoundTrip ==
    /\ out.op = "init"
    /\ "bytes" \in DOMAIN out
    /\ LET table_schema == schemaFile["t1"].schema
           values == parse_row_bytes(table_schema, out.bytes)
       IN  out' = [op |-> "round_trip", bytes |-> out.bytes, values |-> values,
                   encoded |-> data_row_to_bytes(table_schema, values)]
    /\ UNCHANGED <<schemaFile, dataFile, indexFile, okInserts>>

\* data_row_to_bytes of a value map, then parse_row_bytes of the row.
Encode ==
    /\ out.op = "init"
    /\ "values" \in DOMAIN out
    /\ LET table_schema == schemaFile["t1"].schema
           bytes == data_row_to_bytes(table_schema, out.values)
       IN  out' = [op |-> "encode", values |-> out.values, bytes |-> bytes,
                   decoded |-> parse_row_bytes(table_schema, bytes)]
    /\ UNCHANGED <<schemaFile, dataFile, indexFile, okInserts>>

NextCodec ==
    \/ RoundTrip
    \/ Encode

SpecCodec == InitCodec /\ [][NextCodec]_vars

-----------------------------------------------------------------------------
(* SpecEncode: data_row_to_bytes and index_row_to_bytes on value maps of   *)
(* any tag, the fields of a row written in any order.                      *)

\* The schemas of the codec with an index on all their fields.
EncodeSchemas ==
    {[name |-> s.name, fields |-> s.fields,
      indices |-> [ix \in {"ix1"} |-> [k \in 1..Len(s.fields) |-> s.fields[k].name]]] :
        s \in CodecSchemas}

\* The values supplied for a field whatever its type.
EncodeValues == {NULL, I32(-1), I32(1), U8(1), U8(255)}

EncodeValueMaps(table_schema) ==
    UNION {[names -> EncodeValues] : names \in SUBSET FieldNames(table_schema)}

\* The orders in which a HashMap can hand out the keys S.
Orders(S) ==
    {order \in [1..Cardinality(S) -> S] :
        \A i \in DOMAIN order : \A j \in DOMAIN order : order[i] = order[j] => i = j}

\* data_row_to_bytes with the values iterated in the given order.  Each
\* value is copied into bytes[field_byte_pos..]: an I32 takes buf[0..4] and
\* panics when fewer than four bytes are left, a U8 takes buf[0].
RECURSIVE data_row_fields_in_order(_, _, _, _, _)
data_row_fields_in_order(table_schema, values, order, k, bytes) ==
    IF k > Len(order) THEN [res |-> "Ok", bytes |-> bytes]
    ELSE LET pos == field_byte_pos(table_schema, order[k])
             copied == copy_bytes_to(values[order[k]])
         IN  IF pos + Len(copied) > Len(bytes)
             THEN [res |-> "panic", bytes |-> bytes]
             ELSE data_row_fields_in_order(table_schema, values, order, k + 1,
                                           WriteAt(bytes, pos, copied))

data_row_to_bytes_in_order(table_schema, values, order) ==
    data_row_fields_in_order(table_schema, values, order, 1,
                             Zeros(row_byte_size(table_schema)))

InitEncode ==
    /\ \E table_schema \in EncodeSchemas :
          /\ schemaFile = [t \in TableNames |->
                              IF t = "t1" THEN [exists |-> TRUE, schema |-> table_schema]
                              ELSE [exists |-> FALSE]]
          /\ \E values \in EncodeValueMaps(table_schema) :
                out = [op |-> "init", values |-> values]
    /\ dataFile = [t \in TableNames |-> NoFile]
    /\ indexFile = [t \in TableNames |-> [ix \in IndexNames |-> NoFile]]
    /\ okInserts = [t \in TableNames |-> 0]

\* data_row_to_bytes of the value map, in one of the orders of its keys.
EncodeRow(order) ==
    /\ out.op = "init"
    /\ LET r == data_row_to_bytes_in_order(schemaFile["t1"].schema, out.values, order)
       IN  out' = [op |-> "encode_row", values |-> out.values, order |-> order,
                   res |-> r.res, bytes |-> r.bytes]
    /\ UNCHANGED <<schemaFile, dataFile, indexFile, okInserts>>

\* index_row_to_bytes of the value map with the row pointer row_ptr.
EncodeIndexRow(row_ptr) ==
    /\ out.op = "init"
    /\ out' = [op |-> "encode_index_row", values |-> out.values, row_ptr |-> row_ptr,
               res |-> "Ok",
               bytes |-> index_row_to_bytes(schemaFile["t1"].schema, "ix1", out.values,
                                            row_ptr)]
    /\ UNCHANGED <<schemaFile, dataFile, indexFile, okInserts>>

NextEncode ==
    \/ \E order \in Orders(DOMAIN out.values) : EncodeRow(order)
    \/ \E row_ptr \in {0, 258} : EncodeIndexRow(row_ptr)

SpecEncode == InitEncode /\ [][NextEncode]_vars

-----------------------------------------------------------------------------
(* SpecInsertSteps: run_insert_query one filesystem operation per step,    *)
(* with a crash possible between any two of them.  out holds the position  *)
(* of the insert under way: pc, the row built, the indices not yet         *)
(* visited (left), the index being visited (cur), the result of each       *)
(* insert_to_index that has returned (indexed), and the data file and the  *)
(* index files as they were when the insert began (pre_data, pre_index).   *)

\* No insert is under way.
Idle == IF out.op = "insert_step" THEN out.pc \in {"returned", "crashed"} ELSE TRUE

\* The insert under way has reached position pc.
InsertAt(pc) == out.op = "insert_step" /\ out.pc = pc

\* run_insert_query, lines 65-84: the schema file is opened and read, the
\* row buffer is built.  A missing schema file returns the error.
InsertOpenSchema(query) ==
    LET t == query.table
        found == schemaFile[t].exists
    IN  /\ Idle
        /\ found => TotalRows < MaxRows
        /\ out' = [op |-> "insert_step",
                   pc |-> IF found THEN "open_data" ELSE "returned",
                   res |-> IF found THEN "none" ELSE "Err",
                   table |-> t, values |-> query.values,
                   row |-> IF found THEN insert_row_bytes(schemaFile[t].schema, query.values)
                           ELSE <<>>,
                   pos |-> Len(dataFile[t].bytes),
                   left |-> IF found THEN DOMAIN schemaFile[t].schema.indices ELSE {},
                   cur |-> "none",
                   indexed |-> [ix \in {} |-> "none"],
                   pre_data |-> dataFile[t], pre_index |-> indexFile[t]]
        /\ UNCHANGED <<schemaFile, dataFile, indexFile, okInserts>>

\* lines 86-89: the data file is opened with create(true).append(true).
InsertOpenDataFile ==
    /\ InsertAt("open_data")
    /\ dataFile' = [dataFile EXCEPT ![out.table] = File(@.bytes)]
    /\ out' = [out EXCEPT !.pc = "write"]
    /\ UNCHANGED <<schemaFile, indexFile, okInserts>>

\* An insert that goes on to the indices with the row still unwritten.
InsertWriteDeferred ==
    /\ InsertAt("write")
    /\ out' = [out EXCEPT !.pc = "indices"]
    /\ UNCHANGED <<schemaFile, dataFile, indexFile, okInserts>>

\* line 90: the row is written at the end of the data file.
InsertWrite ==
    /\ InsertAt("write")
    /\ dataFile' = [dataFile EXCEPT ![out.table] = append_to_data_file(@, out.row)]
    /\ out' = [out EXCEPT !.pc = "indices"]
    /\ UNCHANGED <<schemaFile, indexFile, okInserts>>

\* lines 92-93 and 131-136: the loop over the indices of the schema, in the
\* HashMap's order, calls insert_to_index, which opens the index file.
InsertOpenIndex(ix) ==
    LET t == out.table
        table_schema == schemaFile[t].schema
    IN  /\ InsertAt("indices")
        /\ ix \in out.left
        /\ indexFile' = [indexFile EXCEPT ![t][ix] =
                            insert_to_index(ix, table_schema.indices[ix],
                                            [table |-> t, values |-> out.values],
                                            table_schema, @).file]
        /\ out' = [out EXCEPT !.pc = "in_index", !.cur = ix]
        /\ UNCHANGED <<schemaFile, dataFile, okInserts>>

\* lines 137-148 and 93: the rest of insert_to_index.  Its result is dropped
\* by the loop; out.indexed keeps it.
InsertIndexReturn ==
    LET t == out.table
        ix == out.cur
        table_schema == schemaFile[t].schema
        r == insert_to_index(ix, table_schema.indices[ix],
                             [table |-> t, values |-> out.values],
                             table_schema, indexFile[t][ix])
    IN  /\ InsertAt("in_index")
        /\ indexFile' = [indexFile EXCEPT ![t][ix] = r.file]
        /\ out' = [out EXCEPT !.pc = "indices", !.cur = "none",
                              !.left = @ \ {ix},
                              !.indexed = [i \in DOMAIN @ \cup {ix} |->
                                              IF i = ix THEN r.res ELSE @[i]]]
        /\ UNCHANGED <<schemaFile, dataFile, okInserts>>

\* line 96: Ok(1) once the loop has visited every index.
InsertReturn ==
    /\ InsertAt("indices")
    /\ out.left = {}
    /\ out' = [out EXCEPT !.pc = "returned", !.res = "Ok"]
    /\ okInserts' = [okInserts EXCEPT ![out.table] = @ + 1]
    /\ UNCHANGED <<schemaFile, dataFile, indexFile>>

\* The process stops between two steps of an insert; the files stay as
\* they are.
Crash ==
    /\ ~Idle
    /\ out' = [out EXCEPT !.pc = "crashed"]
    /\ UNCHANGED <<schemaFile, dataFile, indexFile, okInserts>>

\* A step of an insert under way.
InsertStep ==
    \/ InsertOpenDataFile
    \/ InsertWrite
    \/ \E ix \in IndexNames : InsertOpenIndex(ix)
    \/ InsertIndexReturn
    \/ InsertReturn

NextInsertSteps ==
    \/ \E schema \in QueryCreateTableQueries : Idle /\ CreateTable(schema)
    \/ \E query \in QueryInsertQueries : InsertOpenSchema(query)
    \/ InsertStep
    \/ Crash

SpecInsertSteps == Init /\ [][NextInsertSteps]_vars

\* The steps of inserts into a directory that already holds a table with
\* its indices.
NextInsertDir ==
    \/ \E query \in QueryInsertQueries : InsertOpenSchema(query)
    \/ InsertStep
    \/ Crash

SpecInsertDir == InitIndex /\ [][NextInsertDir]_vars

-----------------------------------------------------------------------------
(* SpecNarrow: the two-sided binary search on drawn sorted sequences.      *)

\* Length of the sorted sequences searched.
MaxSeqLen == 4

\* The elements of the sequences and the targets looked for: below, between
\* and above the elements, and each element.
NarrowValues == {0, 1, 3}
NarrowTargets == {-10, 0, 1, 2, 3, 10}

SortedSeqs ==
    {seq \in UNION {[1..n -> NarrowValues] : n \in 0..MaxSeqLen} :
        \A k \in 1..(Len(seq) - 1) : seq[k] <= seq[k + 1]}

InitNarrow ==
    /\ schemaFile = [t \in TableNames |-> [exists |-> FALSE]]
    /\ dataFile = [t \in TableNames |-> NoFile]
    /\ indexFile = [t \in TableNames |-> [ix \in IndexNames |-> NoFile]]
    /\ okInserts = [t \in TableNames |-> 0]
    /\ \E seq \in SortedSeqs : \E lhs \in -1..(Len(seq) - 1) :
          \E rhs \in (lhs + 1)..Len(seq) : \E target \in NarrowTargets :
             out = [op |-> "init", seq |-> seq, lhs |-> lhs, rhs |-> rhs, target |-> target]

\* The two-sided search between the bounds, the comparator being the
\* comparison of element i (0-based) with the target.
Narrow ==
    /\ out.op = "init"
    /\ LET pred == [i \in 0..(Len(out.seq) - 1) |->
                       cmp(I32(out.seq[i + 1]), I32(out.target))]
           r == binary_narrow_to_range_exclusive(out.lhs, out.rhs, pred)
       IN  out' = [op |-> "narrow", seq |-> out.seq, lhs |-> out.lhs, rhs |-> out.rhs,
                   target |-> out.target, L |-> r[1], R |-> r[2]]
    /\ UNCHANGED <<schemaFile, dataFile, indexFile, okInserts>>

NextNarrow == Narrow

SpecNarrow == InitNarrow /\ [][NextNarrow]_vars

-----------------------------------------------------------------------------
(* SpecScore: index_score and index_for_query on drawn index sets and      *)
(* filter field sets.                                                      *)

MaxIndexFields == 3

ScoreFieldNames == {"f1", "f2", "f3"}

\* The field lists of an index: up to MaxIndexFields fields, none twice.
IndexFieldSeqs ==
    {fs \in UNION {[1..n -> ScoreFieldNames] : n \in 0..MaxIndexFields} :
        \A i \in DOMAIN fs : \A j \in DOMAIN fs : fs[i] = fs[j] => i = j}

\* The tables of the score functions: any set of the index names, each with
\* a field list.
ScoreSchemas ==
    {[name |-> "t1",
      fields |-> [k \in 1..3 |-> [name |-> <<"f1", "f2", "f3">>[k], type |-> "I32"]],
      indices |-> m] :
        m \in UNION {[names -> IndexFieldSeqs] : names \in SUBSET IndexNames}}

InitScore ==
    /\ schemaFile = [t \in TableNames |-> [exists |-> FALSE]]
    /\ dataFile = [t \in TableNames |-> NoFile]
    /\ indexFile = [t \in TableNames |-> [ix \in IndexNames |-> NoFile]]
    /\ okInserts = [t \in TableNames |-> 0]
    /\ \E table_schema \in ScoreSchemas : \E filter_fields \in SUBSET ScoreFieldNames :
          out = [op |-> "init", schema |-> table_schema, filter_fields |-> filter_fields]

\* index_for_query on the drawn table, with the score of each index.
IndexForQuery ==
    /\ out.op = "init"
    /\ \E choice \in index_for_query(out.schema, out.filter_fields) :
          out' = [op |-> "index_for_query", schema |-> out.schema,
                  filter_fields |-> out.filter_fields,
                  scores |-> [ix \in DOMAIN out.schema.indices |->
                                 index_score(out.schema.indices[ix], out.filter_fields)],
                  choice |-> choice]
    /\ UNCHANGED <<schemaFile, dataFile, indexFile, okInserts>>

NextScore == IndexForQuery

SpecScore == InitScore /\ [][NextScore]_vars

-----------------------------------------------------------------------------
(* SpecSearchLoop: the two loops of find_insert_pos_in_index one iteration *)
(* at a time, on i32 bounds, for one index field.                          *)

I32_MAX == 2147483647

\* The entry counts of the index: small ones, and counts in the upper half
\* of the i32 range.
EntryCounts == {0, 1, 2, 3, 5, 1073741824, 1073741825, I32_MAX}

\* Where the sorted entries stop being less than the key, and where they
\* start being greater.
Thresholds(count) == {0, 1, count \div 2, count - 1, count} \cap 0..count

\* i + j leaves the i32 range.  Both are at least -1 in the loops.
add_overflows(i, j) == i > 0 /\ j > 0 /\ i > I32_MAX - j

\* i + j as the wrapping add of a release build gives it.
wrapping_add(i, j) ==
    IF add_overflows(i, j) THEN (i - I32_MAX - 1) + (j - I32_MAX - 1) ELSE i + j

\* (i + j) / 2 on a wrapped, negative sum: the division truncates toward
\* zero, which for a negative a is (a + 1) \div 2.
wrapped_mid(i, j) == (wrapping_add(i, j) + 1) \div 2

InitSearchLoop ==
    /\ schemaFile = [t \in TableNames |-> [exists |-> FALSE]]
    /\ dataFile = [t \in TableNames |-> NoFile]
    /\ indexFile = [t \in TableNames |-> [ix \in IndexNames |-> NoFile]]
    /\ okInserts = [t \in TableNames |-> 0]
    /\ \E count \in EntryCounts : \E first_not_less \in Thresholds(count) :
          \E first_greater \in Thresholds(count) :
             /\ first_not_less <= first_greater
             /\ out = [op |-> "search", loop |-> "lhs", status |-> "running",
                       count |-> count, first_not_less |-> first_not_less,
                       first_greater |-> first_greater,
                       lhs_idx |-> -1, rhs_idx |-> count,
                       i |-> -1, j |-> count, pi |-> -1, pj |-> count, mid |-> -1,
                       steps |-> 0]

\* One iteration of the loop under way that finds i + j inside the i32
\* range: mid = (i + j) / 2, the entry at mid is compared, i or j moves.
SearchStep ==
    /\ out.op = "search" /\ out.status = "running"
    /\ out.i + 1 < out.j
    /\ ~add_overflows(out.i, out.j)
    /\ LET mid == TruncDiv(out.i + out.j, 2)
           move_i == IF out.loop = "lhs" THEN mid < out.first_not_less
                     ELSE mid < out.first_greater
       IN  out' = [out EXCEPT !.pi = out.i, !.pj = out.j, !.mid = mid,
                              !.i = IF move_i THEN mid ELSE @,
                              !.j = IF move_i THEN @ ELSE mid,
                              !.steps = @ + 1]
    /\ UNCHANGED <<schemaFile, dataFile, indexFile, okInserts>>

\* An iteration whose i + j leaves the i32 range.  A build with overflow
\* checks panics at the addition; a build without them wraps to a negative
\* mid, and the read of the entry at `mid as usize` panics out of bounds.
SearchStepOverflow ==
    /\ out.op = "search" /\ out.status = "running"
    /\ out.i + 1 < out.j
    /\ add_overflows(out.i, out.j)
    /\ \/ out' = [out EXCEPT !.pi = out.i, !.pj = out.j, !.status = "overflow_panic",
                             !.steps = @ + 1]
       \/ out' = [out EXCEPT !.pi = out.i, !.pj = out.j,
                             !.mid = wrapped_mid(out.i, out.j),
                             !.status = "bounds_panic", !.steps = @ + 1]
    /\ UNCHANGED <<schemaFile, dataFile, indexFile, okInserts>>

\* `if i + 1 >= j { break; }`: the first loop hands its i to the second,
\* which restarts from the original rhs_idx; the second ends the search.
SearchBreak ==
    /\ out.op = "search" /\ out.status = "running"
    /\ out.i + 1 >= out.j
    /\ out' = IF out.loop = "lhs"
              THEN [out EXCEPT !.loop = "rhs", !.lhs_idx = out.i, !.j = out.rhs_idx,
                               !.pi = out.i, !.pj = out.rhs_idx]
              ELSE [out EXCEPT !.status = "done", !.rhs_idx = out.j]
    /\ UNCHANGED <<schemaFile, dataFile, indexFile, okInserts>>

NextSearchLoop == SearchStep \/ SearchStepOverflow \/ SearchBreak

SpecSearchLoop == InitSearchLoop /\ [][NextSearchLoop]_vars

-----------------------------------------------------------------------------
(* Reading tables and indices back, for the properties.                    *)

IndicesOf(t) == IF schemaFile[t].exists THEN DOMAIN schemaFile[t].schema.indices ELSE {}

IndexEntryCount(t, ix) ==
    Len(indexFile[t][ix].bytes) \div index_row_byte_size(schemaFile[t].schema, ix)

\* The decoded key of entry i of index ix: its index fields in declaration order.
EntryKey(table_schema, ix, index_bytes, i) ==
    LET index_fields == table_schema.indices[ix]
        entry == Slice(index_bytes, i * index_row_byte_size(table_schema, ix),
                       index_row_byte_size(table_schema, ix))
    IN  [k \in 1..Len(index_fields) |->
            value_from_bytes(FieldSchemaOf(table_schema, index_fields[k]),
                             SliceFrom(entry, index_field_byte_pos(table_schema, ix,
                                                                   index_fields[k])))]

\* The row pointer of entry i of index ix.
EntryPtr(table_schema, ix, index_bytes, i) ==
    u64_from_le_bytes(
        Slice(index_bytes,
              i * index_row_byte_size(table_schema, ix)
                + index_row_ptr_field_byte_pos(table_schema, ix),
              TABLE_PTR_BYTE_SIZE))

KeyLeq(k1, k2) == KeyCmp(k1, k2) \in {"Less", "Equal"}

IndexSorted(table_schema, ix, index_bytes) ==
    \A i \in 0..((Len(index_bytes) \div index_row_byte_size(table_schema, ix)) - 2) :
        KeyLeq(EntryKey(table_schema, ix, index_bytes, i),
               EntryKey(table_schema, ix, index_bytes, i + 1))

RowOffsets(t) == {k * row_byte_size(schemaFile[t].schema) : k \in 0..(RowCount(t) - 1)}

IndexPtrs(t, ix) ==
    {EntryPtr(schemaFile[t].schema, ix, indexFile[t][ix].bytes, i) :
        i \in 0..(IndexEntryCount(t, ix) - 1)}

\* The last operation was an insert into t that returned Ok.
InsertCompleted(t) == out.op = "insert" /\ out.table = t /\ out.res = "Ok"

-----------------------------------------------------------------------------
(* Properties of the PBase facade (Spec).                                  *)

C2_IndexPointsToEveryRow ==
    \A t \in TableNames :
        InsertCompleted(t) =>
            \A ix \in IndicesOf(t) : IndexPtrs(t, ix) = RowOffsets(t)

\* C3: the data file of a created table is as long as the inserts that
\* returned Ok since its creation, times the row size.
C3_DataLength ==
    \A t \in TableNames :
        schemaFile[t].exists =>
            /\ dataFile[t].exists
            /\ Len(dataFile[t].bytes) = okInserts[t] * row_byte_size(schemaFile[t].schema)

\* C3 witness: a table that took two inserts.
C3_Witness ==
    \E t \in TableNames :
        /\ InsertCompleted(t)
        /\ okInserts[t] = 2
        /\ Len(dataFile[t].bytes) = 2 * row_byte_size(schemaFile[t].schema)

\* C4 (as claimed): after a completed insert every index file of the table
\* holds one entry per insert.
C4_IndexLength ==
    \A t \in TableNames :
        InsertCompleted(t) =>
            \A ix \in IndicesOf(t) :
                Len(indexFile[t][ix].bytes)
                    = okInserts[t] * index_row_byte_size(schemaFile[t].schema, ix)

\* C5 (as claimed): of two rows with equal index keys, the entry of the one
\* inserted first comes before the entry of the one inserted later.
C5_EqualKeysInInsertionOrder ==
    \A t \in TableNames : \A ix \in IndicesOf(t) :
        \A a \in RowOffsets(t) : \A b \in RowOffsets(t) :
            ( /\ a < b
              /\ KeyCmp(RowKey(schemaFile[t].schema, ix, dataFile[t].bytes, a),
                        RowKey(schemaFile[t].schema, ix, dataFile[t].bytes, b)) = "Equal" )
            => \E i \in 0..(IndexEntryCount(t, ix) - 1) :
                   \E j \in 0..(IndexEntryCount(t, ix) - 1) :
                       /\ i < j
                       /\ EntryPtr(schemaFile[t].schema, ix, indexFile[t][ix].bytes, i) = a
                       /\ EntryPtr(schemaFile[t].schema, ix, indexFile[t][ix].bytes, j) = b

\* C7: an insert that returns Ok leaves every byte the data file held before
\* it in place and puts the new row image at the offset that was the file's
\* length.
C7_RowPointersStable ==
    [][ \A t \in TableNames :
          (out'.op = "insert" /\ out'.table = t /\ out'.res = "Ok") =>
              LET old == IF dataFile[t].exists THEN dataFile[t].bytes ELSE <<>>
                  new == dataFile'[t].bytes
              IN  /\ Len(new) = Len(old) + Len(out'.row)
                  /\ SubSeq(new, 1, Len(old)) = old
                  /\ SubSeq(new, Len(old) + 1, Len(new)) = out'.row
                  /\ out'.pos = Len(old) ]_vars

\* C7 witness: an insert has completed on a data file that already held a row.
C7_Witness ==
    \E t \in TableNames :
        /\ InsertCompleted(t)
        /\ out.pos > 0
        /\ Len(dataFile[t].bytes) = out.pos + row_byte_size(schemaFile[t].schema)

-----------------------------------------------------------------------------
(* Properties of the index functions (SpecIndex).                          *)

\* Position p splits index ix of t1 around key: every entry before p has a
\* key <= key, every entry from p on a key >= key.
SplitsAt(ix, key, p) ==
    LET table_schema == schemaFile["t1"].schema
        index_bytes == indexFile["t1"][ix].bytes
    IN  /\ \A i \in 0..(p - 1) :
              KeyCmp(EntryKey(table_schema, ix, index_bytes, i), key) \in {"Less", "Equal"}
        /\ \A i \in p..(IndexEntryCount("t1", ix) - 1) :
              KeyCmp(EntryKey(table_schema, ix, index_bytes, i), key) \in {"Greater", "Equal"}

\* C6: on a sorted index image find_insert_pos_in_index returns the greatest
\* position p such that all entries before p have a key <= K and all entries
\* from p on have a key >= K.
C6_FindInsertPosIsLastFit ==
    out.op = "find_insert_pos" =>
        /\ IndexSorted(schemaFile["t1"].schema, out.index, indexFile["t1"][out.index].bytes)
        /\ out.pos \in 0..IndexEntryCount("t1", out.index)
        /\ SplitsAt(out.index, out.key, out.pos)
        /\ \A p \in 0..IndexEntryCount("t1", out.index) :
              SplitsAt(out.index, out.key, p) => p <= out.pos

\* C6 witness: on the two-field index, a key that equals the middle entry of
\* three, with a smaller entry before it and a greater one after it, is
\* placed just after the equal entry.
C6_Witness ==
    /\ out.op = "find_insert_pos"
    /\ out.index = "ix1"
    /\ IndexEntryCount("t1", "ix1") = 3
    /\ out.pos = 2
    /\ LET key(i) == EntryKey(schemaFile["t1"].schema, "ix1", indexFile["t1"]["ix1"].bytes, i)
       IN  /\ KeyCmp(key(0), out.key) = "Less"
           /\ KeyCmp(key(1), out.key) = "Equal"
           /\ KeyCmp(key(2), out.key) = "Greater"

-----------------------------------------------------------------------------
(* Properties of the executor's single-table steps (SpecQuery).            *)

\* The row of t at offset pos satisfies the literal filter.
RowSatisfies(t, pos, filter) ==
    cmp(parse_row_bytes(schemaFile[t].schema,
                        Slice(dataFile[t].bytes, pos,
                              row_byte_size(schemaFile[t].schema)))[filter.field.name],
        filter.rhs.value) = filter.op

\* A literal filter whose field source is t.
IsOwnFilter(t, filter) == filter.rhs.kind = "Value" /\ filter.field.source = t

\* The row of t at offset pos satisfies every filter of t among filters.
RowPassesOwn(t, pos, filters) ==
    \A k \in 1..Len(filters) :
        IsOwnFilter(t, filters[k]) => RowSatisfies(t, pos, filters[k])

SeqRange(seq) == {seq[k] : k \in 1..Len(seq)}

\* The positions a Selection of t stands for.
PositionsOf(t, selection) ==
    SelectionIterator(selection, row_byte_size(schemaFile[t].schema), Len(dataFile[t].bytes))

\* C8 (as claimed): a query with one literal filter f op v on the leading
\* field of an index of the table, taken through the index step, yields
\* exactly the rows whose f compares to v as op, each once.
C8_IndexStepReturnsMatchingRows ==
    \A t \in TableNames :
        ( /\ out.op = "execute_filters"
          /\ out.table = t
          /\ Len(out.filters) = 1
          /\ IsOwnFilter(t, out.filters[1])
          /\ \E ix \in IndicesOf(t) :
                schemaFile[t].schema.indices[ix][1] = out.filters[1].field.name )
        => /\ out.res = "Ok"
           /\ SeqRange(PositionsOf(t, out.selection))
                  = {pos \in RowOffsets(t) : RowSatisfies(t, pos, out.filters[1])}
           /\ Len(PositionsOf(t, out.selection))
                  = Cardinality(SeqRange(PositionsOf(t, out.selection)))

\* C9 (as claimed): the linear scan, handed at least one filter of the
\* table, keeps a position of the scanned Selection exactly when its row
\* satisfies every filter of the table, each kept position once and in the
\* scanned order.
C9_ScanKeepsConjunction ==
    \A t \in TableNames :
        ( /\ out.op = "scan_filter"
          /\ out.table = t
          /\ out.res = "Ok"
          /\ \E k \in 1..Len(out.filters) : IsOwnFilter(t, out.filters[k]) ) =>
            /\ out.selection.kind = "List"
            /\ out.selection.positions
                   = SelectSeq(PositionsOf(t, out.current_selection),
                               LAMBDA pos : RowPassesOwn(t, pos, out.filters))

\* C10 (as claimed): for a query whose filters are literal filters on opened
\* tables, the Selection derived for a table is the set of its rows that
\* satisfy the filters whose source is the table, and a filter of another
\* table is still among the filters left afterwards.
C10_SelectionUsesOwnFiltersOnly ==
    \A t \in TableNames :
        ( /\ out.op = "execute_filters"
          /\ out.table = t
          /\ out.res = "Ok"
          /\ \A k \in 1..Len(out.filters) :
                /\ out.filters[k].rhs.kind = "Value"
                /\ TableOpened(out.filters[k].field.source) ) =>
            /\ SeqRange(PositionsOf(t, out.selection))
                   = {pos \in RowOffsets(t) : RowPassesOwn(t, pos, out.filters)}
            /\ \A k \in 1..Len(out.filters) :
                  out.filters[k].field.source # t
                      => out.filters[k] \in SeqRange(out.filters_left)

-----------------------------------------------------------------------------
(* Properties of the multi-table view (SpecView).                          *)

\* The value of a field of table t in the row at offset pos of its data file.
FieldAt(t, pos, field) ==
    get_field_value(schemaFile[t].schema,
                    Slice(dataFile[t].bytes, pos, row_byte_size(schemaFile[t].schema)),
                    field)

\* The pairs <<i, j>> of an old view-row and a position of the rhs Selection
\* that the join of out matches.
JoinMatches ==
    LET lhs == out.contract.lhs
        rhs == out.contract.rhs
        positions == PositionsOf(rhs.source, out.selection)
    IN  {m \in (1..Len(out.old.view)) \X (1..Len(positions)) :
            FieldAt(lhs.source, out.old.view[m[1]][out.view.tables[lhs.source] + 1], lhs.name)
                = FieldAt(rhs.source, positions[m[2]], rhs.name)}

\* The place of a matching pair: view-row order first, Selection order second.
JoinRank(m) ==
    Cardinality({n \in JoinMatches : n[1] < m[1] \/ (n[1] = m[1] /\ n[2] < m[2])}) + 1

\* C11: an inner join that returns replaces the view by exactly the rows
\* v ++ [p], for every view-row v and every position p of the rhs Selection
\* whose rhs join field equals v's lhs join field, in view-row order first
\* and rhs Selection order second.
C11_InnerJoinRows ==
    (out.op = "join" /\ out.res = "Ok") =>
        /\ Len(out.view.view) = Cardinality(JoinMatches)
        /\ \A m \in JoinMatches :
              out.view.view[JoinRank(m)]
                  = Append(out.old.view[m[1]],
                           PositionsOf(out.contract.rhs.source, out.selection)[m[2]])

\* C11 witness: a join over a List Selection in descending order, on a view
\* of two rows of which the first matches both rhs rows and the second none.
C11_Witness ==
    /\ out.op = "join"
    /\ out.res = "Ok"
    /\ out.selection.kind = "List"
    /\ Len(out.old.view) = 2
    /\ Len(out.view.view) = 2
    /\ out.view.view[1][1] = out.old.view[1][1]
    /\ out.view.view[2][1] = out.old.view[1][1]
    /\ out.view.view[1][2] > out.view.view[2][2]

\* The tables of the query that built the view of out.
ViewQueryTables == {out.from} \cup {out.joins[j].rhs.source : j \in 1..Len(out.joins)}

\* C14: materialisation yields one map per view-row, in view order; the keys
\* of each map are exactly the "<table>.<field>" of every declared field of
\* the main table and of every joined table, and each key holds the value
\* decoded from that table's data at the view-row's position for the table.
C14_MaterializeRows ==
    out.op = "materialize" =>
        /\ Len(out.rows) = Len(out.view.view)
        /\ \A i \in 1..Len(out.rows) :
              /\ DOMAIN out.rows[i]
                     = UNION {{t \o "." \o schemaFile[t].schema.fields[k].name :
                                  k \in 1..Len(schemaFile[t].schema.fields)} :
                              t \in ViewQueryTables}
              /\ \A t \in ViewQueryTables :
                    \A k \in 1..Len(schemaFile[t].schema.fields) :
                       LET field == schemaFile[t].schema.fields[k].name
                       IN  out.rows[i][t \o "." \o field]
                               = FieldAt(t, out.view.view[i][out.view.tables[t] + 1], field)

\* C14 witness: a joined view of two rows, whose two tables are read at
\* different positions, materialised to two different maps of four keys.
C14_Witness ==
    /\ out.op = "materialize"
    /\ Len(out.joins) = 1
    /\ Len(out.rows) = 2
    /\ out.rows[1] # out.rows[2]
    /\ Cardinality(DOMAIN out.rows[1]) = 4
    /\ \E i \in 1..2 : out.view.view[i][1] # out.view.view[i][2]

\* C18 (as claimed): a join that compares a field of one tag with a field
\* of another tag compares two non-NULL values of different tags for every
\* pair of a view-row and a row of the rhs Selection, and so ends in a
\* fatal error.
C18_CrossTagComparisonFatal ==
    ( /\ out.op = "join"
      /\ out.old.view # <<>>
      /\ PositionsOf(out.contract.rhs.source, out.selection) # <<>>
      /\ FieldSchemaOf(schemaFile[out.contract.lhs.source].schema, out.contract.lhs.name)
            # FieldSchemaOf(schemaFile[out.contract.rhs.source].schema, out.contract.rhs.name) )
    => out.res = "panic"

-----------------------------------------------------------------------------
(* Properties of SELECT (SpecSelect).  The queries have at most one join,  *)
(* so a row of a result stands for a pair <<p, q>>: p the offset of a row  *)
(* of the main table, q the offset of a row of the joined table (0 when    *)
(* there is no join).                                                      *)

\* The data file of t holds whole rows only.
WholeRows(t) == Len(dataFile[t].bytes) % row_byte_size(schemaFile[t].schema) = 0

\* Every table of the query has its schema and a data file of whole rows
\* that can be mapped.
QueryTablesSound(query) ==
    \A k \in 1..Len(query_tables(query)) :
        TableOpened(query_tables(query)[k]) /\ WholeRows(query_tables(query)[k])

PairPos(query, pair, t) == IF t = query.from THEN pair[1] ELSE pair[2]

\* compare(lhs field value, rhs value) = op at the pair, the rhs value being
\* the literal or the referenced field's value.
FilterHolds(query, pair, filter) ==
    cmp(FieldAt(filter.field.source, PairPos(query, pair, filter.field.source),
                filter.field.name),
        IF filter.rhs.kind = "Value" THEN filter.rhs.value
        ELSE FieldAt(filter.rhs.ref.source, PairPos(query, pair, filter.rhs.ref.source),
                     filter.rhs.ref.name)) = filter.op

\* The pairs the query selects: joined rows that pass every filter.
QueryPairs(query) ==
    {pair \in RowOffsets(query.from)
                 \X (IF query.joins = <<>> THEN {0}
                     ELSE RowOffsets(query.joins[1].rhs.source)) :
        /\ query.joins # <<>> =>
              FieldAt(query.joins[1].lhs.source,
                      PairPos(query, pair, query.joins[1].lhs.source),
                      query.joins[1].lhs.name)
                  = FieldAt(query.joins[1].rhs.source, pair[2], query.joins[1].rhs.name)
        /\ \A k \in 1..Len(query.filters) : FilterHolds(query, pair, query.filters[k])}

PairRank(query, pair) ==
    Cardinality({q \in QueryPairs(query) :
                    q[1] < pair[1] \/ (q[1] = pair[1] /\ q[2] < pair[2])}) + 1

\* The value a result row holds for a field: results of call are keyed by
\* "<table>.<field>", results of run_select_query by the field name.
RowValue(row, field_selector) ==
    IF full_name(field_selector) \in DOMAIN row THEN row[full_name(field_selector)]
    ELSE row[field_selector.name]

\* The last SELECT returned the rows the query selects, in order, each with
\* the decoded value of every field of its tables.
ReturnsRowsOf(query) ==
    /\ out.res = "Ok"
    /\ Len(out.rows) = Cardinality(QueryPairs(query))
    /\ \A pair \in QueryPairs(query) :
          LET fields == output_fields(query.from, query.joins, TableSchemaMap)
          IN  \A k \in 1..Len(fields) :
                 RowValue(out.rows[PairRank(query, pair)], fields[k])
                     = FieldAt(fields[k].source, PairPos(query, pair, fields[k].source),
                               fields[k].name)

\* C12 (as claimed): a SELECT with a filter whose rhs refers to a field of a
\* different joined table returns exactly the joined rows for which
\* compare(lhs field value, referenced field value) is the filter's op.
C12_CrossTableRefFilter ==
    ( /\ out.op = "call"
      /\ QueryTablesSound(out.query)
      /\ \E k \in 1..Len(out.query.filters) :
            /\ out.query.filters[k].rhs.kind = "Ref"
            /\ out.query.filters[k].rhs.ref.source # out.query.filters[k].field.source )
    => ReturnsRowsOf(out.query)

\* C13 (as claimed): a SELECT with a filter whose rhs refers to a field of
\* the filter's own table is accepted and returns exactly the rows where
\* compare(lhs field value, rhs field value) of the row is the filter's op,
\* in insertion order.
C13_SameTableRefFilter ==
    ( /\ out.op = "call"
      /\ QueryTablesSound(out.query)
      /\ \E k \in 1..Len(out.query.filters) :
            /\ out.query.filters[k].rhs.kind = "Ref"
            /\ out.query.filters[k].rhs.ref.source = out.query.filters[k].field.source )
    => ReturnsRowsOf(out.query)

\* C15 (as claimed): a SELECT with no joins and no filters on a table that
\* holds n inserted rows returns n rows, the k-th decoded from the bytes at
\* offset (k - 1) * row_size of the data file.
C15_SelectAllRows ==
    ( /\ out.op \in {"call", "run_select_query"}
      /\ out.query.joins = <<>>
      /\ out.query.filters = <<>>
      /\ schemaFile[out.query.from].exists
      /\ dataFile[out.query.from].exists
      /\ WholeRows(out.query.from) )
    => ReturnsRowsOf(out.query)

\* Table k of the query has its schema and its data file, and the length of
\* the data file is not a multiple of the row byte size.
TornTable(query, k) ==
    /\ \A j \in 1..Len(query_tables(query)) :
          /\ schemaFile[query_tables(query)[j]].exists
          /\ dataFile[query_tables(query)[j]].exists
    /\ ~WholeRows(query_tables(query)[k])

\* C16 (as claimed): a SELECT on a table whose data file length is not a
\* multiple of its row byte size fails with the InvalidTableSize error value,
\* with or without filters and with or without an index.
C16_InvalidTableSize ==
    ( /\ out.op \in {"call", "run_select_query"}
      /\ \E k \in 1..Len(query_tables(out.query)) : TornTable(out.query, k) )
    => (out.res = "Err" /\ out.err = "InvalidTableSizeError")

-----------------------------------------------------------------------------
(* Properties of Value (SpecValue).                                        *)

\* No two of the values are non-NULL values of different tags.
OneTag(values) ==
    \A x \in values : \A y \in values :
        x.tag = "NULL" \/ y.tag = "NULL" \/ x.tag = y.tag

\* The numeric order of two integers as an Ordering.
NumericOrder(x, y) == IF x < y THEN "Less" ELSE IF x = y THEN "Equal" ELSE "Greater"

\* C17: within one tag extended with NULL the comparison is a total order
\* with NULL as its least element: NULL equals NULL, NULL is less than every
\* non-NULL value (zero included) and every non-NULL value greater than
\* NULL, values of one tag compare by numeric order; the comparison is
\* reflexive, antisymmetric and transitive.
C17_ValueOrder ==
    (out.op = "cmp" /\ OneTag({out.a, out.b, out.c})) =>
        /\ out.ab \in {"Less", "Equal", "Greater"}
        /\ (out.a.tag = "NULL" /\ out.b.tag = "NULL") => out.ab = "Equal"
        /\ (out.a.tag = "NULL" /\ out.b.tag # "NULL") => (out.ab = "Less" /\ out.ba = "Greater")
        /\ (out.a.tag # "NULL" /\ out.b.tag # "NULL") => out.ab = NumericOrder(out.a.v, out.b.v)
        /\ out.aa = "Equal"
        /\ out.ab = "Equal" <=> out.a = out.b
        /\ out.ab = "Less" <=> out.ba = "Greater"
        /\ (out.ab # "Greater" /\ out.bc # "Greater") => out.ac # "Greater"
        /\ (out.ab = "Less" /\ out.bc # "Greater") => out.ac = "Less"

\* C17 witness: NULL compared with the zero of a tag and with a negative
\* value of the same tag.
C17_Witness ==
    /\ out.op = "cmp"
    /\ out.a = NULL
    /\ out.b = I32(-1)
    /\ out.c = I32(0)
    /\ out.ab = "Less"
    /\ out.bc = "Less"
    /\ out.ac = "Less"

-----------------------------------------------------------------------------
(* Properties of the row codec (SpecCodec).                                *)

\* C19: for every schema and every byte sequence b of row_byte_size bytes,
\* data_row_to_bytes(parse_row_bytes(b)) = b.
C19_RowRoundTrip ==
    out.op = "round_trip" => out.encoded = out.bytes

\* C19 witness: a row image of a U8, an I32 and a U8 field that decodes to a
\* negative I32 and to the highest U8, and is encoded again.
C19_Witness ==
    /\ out.op = "round_trip"
    /\ Len(out.bytes) = 6
    /\ out.values["f1"] = U8(255)
    /\ out.values["f2"].v < 0
    /\ out.values["f3"] = U8(128)
    /\ out.encoded = out.bytes

\* The zero value of a field type.
ZeroValue(field_schema) == IF field_schema = "U8" THEN U8(0) ELSE I32(0)

-----------------------------------------------------------------------------
(* Properties of the steps of an insert (SpecInsertSteps).                 *)

\* The index values of the insert under way for index ix: the value of each
\* index field, NULL for a field the insert leaves out.
StepIndexValues(ix) ==
    LET index_fields == schemaFile[out.table].schema.indices[ix]
    IN  [k \in 1..Len(index_fields) |->
            IF index_fields[k] \in DOMAIN out.values THEN out.values[index_fields[k]]
            ELSE NULL]

\* The pre-insert content of index ix with the entry of the insert under
\* way spliced in at its insert position.
SplicedIndex(ix) ==
    LET table_schema == schemaFile[out.table].schema
        pre == out.pre_index[ix].bytes
        at == find_insert_pos_in_index(ix, pre, StepIndexValues(ix), table_schema)
                  * index_row_byte_size(table_schema, ix)
    IN  SubSeq(pre, 1, at)
            \o index_row_to_bytes(table_schema, ix, out.values, out.pos)
            \o SubSeq(pre, at + 1, Len(pre))

\* C21 (as claimed): at every step of an insert, and after a crash at any
\* step, an index file holds its pre-insert content until its splice is
\* committed, and from then on the pre-insert entries with the new entry
\* spliced in at the insert position; nothing else is ever in the file.
C21_IndexSpliceAtomic ==
    (out.op = "insert_step" /\ schemaFile[out.table].exists) =>
        \A ix \in DOMAIN schemaFile[out.table].schema.indices :
            IF ix \in DOMAIN out.indexed
            THEN indexFile[out.table][ix].bytes = SplicedIndex(ix)
            ELSE indexFile[out.table][ix].bytes = out.pre_index[ix].bytes

\* C22 (as claimed): an insert during which the splice into an index file
\* failed returns that error to the caller.
C22_IndexErrorReturned ==
    ( /\ InsertAt("returned")
      /\ \E ix \in DOMAIN out.indexed : out.indexed[ix] = "Err" )
    => out.res = "Err"

-----------------------------------------------------------------------------
(* Properties of the binary search (SpecNarrow).                           *)

\* The 0-based indices strictly between the bounds of the search of out
\* whose element compares as ord with the target.
NarrowInside(ord) ==
    {i \in (out.lhs + 1)..(out.rhs - 1) :
        cmp(I32(out.seq[i + 1]), I32(out.target)) = ord}

SetMax(S) == CHOOSE x \in S : \A y \in S : y <= x
SetMin(S) == CHOOSE x \in S : \A y \in S : x <= y

\* C23: on a sorted sequence with exclusive bounds lhs < rhs the two-sided
\* search returns (L, R), L the last index between the bounds whose element
\* is less than the target (lhs if none), R the first whose element is
\* greater (rhs if none); the indices strictly between L and R are exactly
\* those of the elements equal to the target, and R = L + 1 when the target
\* is absent.
C23_NarrowToRangeExclusive ==
    out.op = "narrow" =>
        /\ out.L = SetMax(NarrowInside("Less") \cup {out.lhs})
        /\ out.R = SetMin(NarrowInside("Greater") \cup {out.rhs})
        /\ (out.L + 1)..(out.R - 1) = NarrowInside("Equal")
        /\ NarrowInside("Equal") = {} => out.R = out.L + 1

\* C23 witness: a band of two equal elements with a smaller element before
\* it and a greater one after it, searched over the whole sequence.
C23_Witness ==
    /\ out.op = "narrow"
    /\ out.seq = <<0, 1, 1, 3>>
    /\ out.lhs = -1
    /\ out.rhs = 4
    /\ out.target = 1
    /\ out.L = 0
    /\ out.R = 3

\* The row pointers of the entries of an index file of table_schema.
PtrsOf(table_schema, ix, index_bytes) ==
    {EntryPtr(table_schema, ix, index_bytes, i) :
        i \in 0..((Len(index_bytes) \div index_row_byte_size(table_schema, ix)) - 1)}

\* The row offsets of a data file of table_schema.
OffsetsOf(table_schema, data_bytes) ==
    {k * row_byte_size(table_schema) :
        k \in 0..((Len(data_bytes) \div row_byte_size(table_schema)) - 1)}

\* The insert under way has begun the step of index ix.
IndexStepBegun(ix) == out.cur = ix \/ ix \in DOMAIN out.indexed

-----------------------------------------------------------------------------
(* Properties of the index step set against a scan (SpecIndexScan).        *)

\* The filters the index step has taken out of filters_left.
ConsumedFilters ==
    {out.filters[k] : k \in DOMAIN out.filters} \ {out.filters_left[k] : k \in DOMAIN out.filters_left}

\* The positions of the rows of t1 that a linear scan keeps under filters.
LinearScan(filters) ==
    {pos \in RowOffsets("t1") :
        \A f \in filters : is_satisfy(f, dataFile["t1"].bytes, pos, schemaFile["t1"].schema)}

\* C25 (as claimed): the row pointers the index step emits are exactly the
\* positions of the rows that satisfy every filter the step has consumed,
\* each position once.
C25_IndexStepIsLinearScan ==
    (out.op = "index_filter" /\ out.res = "Ok") =>
        /\ {out.selection.positions[k] : k \in DOMAIN out.selection.positions}
              = LinearScan(ConsumedFilters)
        /\ Len(out.selection.positions) = Cardinality(LinearScan(ConsumedFilters))

-----------------------------------------------------------------------------
(* Properties of the index choice (SpecScore).                             *)

\* The length of the longest prefix of index_fields made of filter fields.
PrefixScore(index_fields, filter_fields) ==
    SetMax({n \in 0..Len(index_fields) : \A k \in 1..n : index_fields[k] \in filter_fields})

\* C26: the score of an index is the length of the longest prefix of its
\* fields that are all filter fields; index_for_query returns None when every
\* index scores 0 and otherwise an index of the greatest score.
C26_IndexScoreAndChoice ==
    out.op = "index_for_query" =>
        LET indices == out.schema.indices
            best(ix) == PrefixScore(indices[ix], out.filter_fields)
        IN  /\ \A ix \in DOMAIN indices : out.scores[ix] = best(ix)
            /\ IF \A ix \in DOMAIN indices : best(ix) = 0
               THEN out.choice = "None"
               ELSE /\ out.choice \in DOMAIN indices
                    /\ \A ix \in DOMAIN indices : best(ix) <= best(out.choice)

\* An index whose third field is a filter field after a gap scores 1, and
\* the other index, of score 2, is the choice.
C26_Witness ==
    /\ out.op = "index_for_query"
    /\ out.schema.indices = [ix \in IndexNames |->
                                IF ix = "ix1" THEN <<"f1", "f2", "f3">> ELSE <<"f3", "f1">>]
    /\ out.filter_fields = {"f1", "f3"}
    /\ out.scores["ix1"] = 1
    /\ out.choice = "ix2"

-----------------------------------------------------------------------------
(* Properties of the search loops (SpecSearchLoop).                        *)

\* C27 (as claimed): every iteration of a search loop computes a midpoint
\* strictly between i and j, which is an entry index, and moves i up or j
\* down to it, so the interval shrinks and the loop ends.
C27_MidpointInsideAndShrinks ==
    (out.op = "search" /\ out.steps > 0) =>
        /\ out.status \in {"running", "done"}
        /\ (out.status = "running" /\ (out.pi # out.i \/ out.pj # out.j)) =>
              /\ out.pi < out.mid /\ out.mid < out.pj
              /\ 0 <= out.mid /\ out.mid < out.count
              /\ \/ out.i = out.mid /\ out.j = out.pj
                 \/ out.i = out.pi /\ out.j = out.mid

-----------------------------------------------------------------------------
(* Properties of an insert without a schema file (Spec).                   *)

\* C28: an insert into a table whose schema file does not exist returns an
\* error and leaves every schema, data and index file as it was.
C28_InsertWithoutSchemaChangesNothing ==
    [][(out'.op = "insert" /\ ~schemaFile[out'.table].exists) =>
          /\ out'.res = "Err"
          /\ UNCHANGED <<schemaFile, dataFile, indexFile>>]_vars

\* An insert into a table without a schema file has returned the error
\* while the other table holds a row; the table still has no file.
C28_Witness ==
    /\ out.op = "insert" /\ out.res = "Err"
    /\ ~schemaFile[out.table].exists
    /\ ~dataFile[out.table].exists
    /\ \A ix \in IndexNames : ~indexFile[out.table][ix].exists
    /\ \E t \in TableNames \ {out.table} : RowCount(t) > 0

-----------------------------------------------------------------------------
(* Properties of the shape of a view (SpecView).                           *)

\* C29 (as claimed): in a view left by the construction or by a join, every
\* view-row has one position per registered table, the columns of the
\* registered tables are exactly 0..len-1, one table each, and the position
\* in a table's column is the start of a row of that table.
C29_ViewRowsMatchTables ==
    HasView =>
        LET tables == out.view.tables
            n == Cardinality(DOMAIN tables)
        IN  /\ {tables[t] : t \in DOMAIN tables} = 0..(n - 1)
            /\ \A t1 \in DOMAIN tables : \A t2 \in DOMAIN tables :
                  tables[t1] = tables[t2] => t1 = t2
            /\ \A k \in 1..Len(out.view.view) :
                  LET view_row == out.view.view[k]
                  IN  /\ Len(view_row) = n
                      /\ \A t \in DOMAIN tables :
                            tables[t] < Len(view_row) =>
                               view_row[tables[t] + 1] \in RowOffsets(t)

-----------------------------------------------------------------------------
(* Properties of the encoders on values of any tag (SpecEncode).           *)

\* The field is left out, NULL, or supplied with a value of its own type.
OwnTyped(table_schema, values, f) ==
    f \notin DOMAIN values \/ values[f].tag \in {"NULL", FieldSchemaOf(table_schema, f)}

\* The bytes of the field's own supplied value: zeros when there is none.
OwnBytes(table_schema, values, f) ==
    IF f \notin DOMAIN values \/ values[f].tag = "NULL"
    THEN Zeros(byte_size(FieldSchemaOf(table_schema, f)))
    ELSE copy_bytes_to(values[f])

\* C30 (as claimed): in an encoded row and in an encoded index entry the
\* bytes of every field that is supplied with a value of its own type, with
\* NULL, or not at all, are those of its own value, whatever tags the other
\* fields are supplied with and whatever the order of the writes; the row
\* pointer of the entry is the one supplied.
C30_EncodeWritesOwnRangeOnly ==
    LET table_schema == schemaFile["t1"].schema
    IN  /\ (out.op = "encode_row" /\ out.res = "Ok") =>
              \A f \in FieldNames(table_schema) :
                 OwnTyped(table_schema, out.values, f) =>
                    Slice(out.bytes, field_byte_pos(table_schema, f),
                          byte_size(FieldSchemaOf(table_schema, f)))
                       = OwnBytes(table_schema, out.values, f)
        /\ out.op = "encode_index_row" =>
              /\ \A f \in FieldNames(table_schema) :
                    OwnTyped(table_schema, out.values, f) =>
                       Slice(out.bytes, index_field_byte_pos(table_schema, "ix1", f),
                             byte_size(FieldSchemaOf(table_schema, f)))
                          = OwnBytes(table_schema, out.values, f)
              /\ Slice(out.bytes, index_row_ptr_field_byte_pos(table_schema, "ix1"),
                       TABLE_PTR_BYTE_SIZE)
                    = u64_to_le_bytes(out.row_ptr)

=============================================================================
